---- MODULE Spec2Model ----
(***************************************************************************)
(* Model of the i18n-report command line tool (src/go/i18n-report):        *)
(* key removal with pruning (report_remove.go), merge of translated        *)
(* entries into a locale file (report_merge.go, YAML helpers) and the      *)
(* batch slicing of the translate report (report_translate.go), the scan   *)
(* of the source tree for key references (repo.go) and the reports built   *)
(* on it (missing, stale, unused, translate, check).                       *)
(*                                                                         *)
(* Strings are sequences of one-character strings, so that splitting on    *)
(* ".", byte-order comparison and line handling are computed, not assumed. *)
(* A comment block is the sequence of its lines.                           *)
(***************************************************************************)
EXTENDS Integers, Sequences, FiniteSets, TLC

VARIABLES
    en,      \* the reference catalog en-us.yaml on disk: [kind, root, mtime]
    file,    \* the target locale file on disk: [kind, root, mtime]
    tree,    \* the source tree, as what the scan finds in it
    pre,     \* the file as it was when the last command started
    op,      \* the command that ran last ("none" before any)
    args,    \* the inputs of that command
    ret,     \* what that command returned / printed
    i18n     \* the i18n module of the main process (main/i18n.ts)

vars == <<en, file, tree, pre, op, args, ret, i18n>>

----------------------------------------------------------------------------
(* Bounds of the model *)

\* largest number of key/value pairs in a generated document
MaxNodes == 3
\* largest number of keys handed to one removal
MaxKeys == 2
\* largest number of entries in the input of one merge
MaxEntries == 2
\* largest number of keys in the reference catalog of a translate run
MaxEn == 5
\* largest small --batches given to translate
MaxBatches == 3
\* width in bits of Go's int, scaled down from 64
IntBits == 5
\* largest number of entries handed to one writeNestedYAML
MaxWritten == 3
\* length up to which every candidate key is tried on a template
MaxKeyLen == 4
\* length up to which every string of quotes is handed to stripYAMLQuotes
MaxQuoted == 5

\* lines of an input file given to extractTranslationText
MaxLines == 3

\* blocks of one message of an input file
MaxBlocks == 3

\* lines of an input read by parseMergeInput
MaxParseLines == 3

\* keys of the catalog whose iteration orders findKeyReferences is run in
MaxResolveKeys == 4

\* settings-update events sent to the main process
MaxEvents == 3

\* callbacks registered with onLocaleChange
MaxCallbacks == 2

----------------------------------------------------------------------------
(* Strings *)

S1(a) == <<a>>
Dot == "."

\* a.b as a dotted key
Dotted(a, b) == a \o <<Dot>> \o b

RECURSIVE SplitAcc(_, _, _, _)
SplitAcc(s, sep, i, cur) ==
    IF i > Len(s) THEN <<cur>>
    ELSE IF s[i] = sep THEN <<cur>> \o SplitAcc(s, sep, i + 1, <<>>)
    ELSE SplitAcc(s, sep, i + 1, Append(cur, s[i]))

\* strings.Split(s, sep) for a one-character separator
Split(s, sep) == SplitAcc(s, sep, 1, <<>>)

RECURSIVE Join(_, _)
\* strings.Join(parts, sep)
Join(parts, sep) ==
    IF Len(parts) = 0 THEN <<>>
    ELSE IF Len(parts) = 1 THEN parts[1]
    ELSE parts[1] \o <<sep>> \o Join(Tail(parts), sep)

\* s[from..to] (1-based, inclusive); empty when from > to
Slice(s, from, to) == [i \in 1..(to - from + 1) |-> s[from + i - 1]]

\* the sequence s without its elements i and i+1: append(s[:i], s[i+2:]...)
DropPair(s, i) == Slice(s, 1, i - 1) \o Slice(s, i + 2, Len(s))

\* every ordering of the finite set S, as sequences without repetition
Perms(S) ==
    {p \in [1..Cardinality(S) -> S] : \A i, j \in 1..Cardinality(S) : i # j => p[i] # p[j]}

----------------------------------------------------------------------------
(* yaml.Node trees *)

ScalarNode == "ScalarNode"
MappingNode == "MappingNode"

\* a scalar value node
Leaf(tag, v) ==
    [Kind |-> ScalarNode, Tag |-> tag, Value |-> v, HeadComment |-> <<>>, Content |-> <<>>]

\* the key node of a mapping pair, with the comment lines written above it
KeyNode(name, comment) ==
    [Kind |-> ScalarNode, Tag |-> "!!str", Value |-> name, HeadComment |-> comment,
     Content |-> <<>>]

\* a mapping node; Content alternates key node, value node
Map(content) ==
    [Kind |-> MappingNode, Tag |-> "!!map", Value |-> <<>>, HeadComment |-> <<>>,
     Content |-> content]

\* indices of the key nodes of a mapping's Content: i := 0; i < len-1; i += 2
KeyIdx(node) == {i \in 1..(Len(node.Content) - 1) : i % 2 = 1}


\* the zero yaml.Node: what Unmarshal leaves when the input holds no document
ZeroNode ==
    [Kind |-> "Zero", Tag |-> "", Value |-> <<>>, HeadComment |-> <<>>, Content |-> <<>>]

----------------------------------------------------------------------------
(* Reading a tree by dotted path (observation only, used by the properties) *)

RECURSIVE HasPath(_, _)
\* some chain of mapping pairs of node spells parts
HasPath(node, parts) ==
    /\ node.Kind = MappingNode
    /\ Len(parts) > 0
    /\ \E i \in KeyIdx(node) :
          /\ node.Content[i].Value = parts[1]
          /\ \/ Len(parts) = 1
             \/ HasPath(node.Content[i + 1], Tail(parts))

RECURSIVE AllPaths(_)
\* the segment paths of every pair below node, leaves and mappings alike
AllPaths(node) ==
    IF node.Kind # MappingNode THEN {}
    ELSE UNION {
        {<<node.Content[i].Value>>}
          \cup {<<node.Content[i].Value>> \o q : q \in AllPaths(node.Content[i + 1])}
        : i \in KeyIdx(node)}

\* the pair at key index j of node starts a chain spelling parts
Spells(node, parts, j) ==
    /\ node.Content[j].Value = parts[1]
    /\ (Len(parts) = 1 \/ HasPath(node.Content[j + 1], Tail(parts)))

RECURSIVE NodeAt(_, _)
\* the value node at the end of the first chain spelling parts (which must exist)
NodeAt(node, parts) ==
    LET i == CHOOSE j \in KeyIdx(node) :
                 /\ Spells(node, parts, j)
                 /\ \A h \in KeyIdx(node) : h < j => ~Spells(node, parts, h)
    IN  IF Len(parts) = 1 THEN node.Content[i + 1]
        ELSE NodeAt(node.Content[i + 1], Tail(parts))

\* p is a prefix of q (p = q included)
IsPrefix(p, q) == Len(p) <= Len(q) /\ \A i \in 1..Len(p) : p[i] = q[i]

----------------------------------------------------------------------------
(* report_remove.go *)

RECURSIVE removeKeyFromNode(_, _), removeLoop(_, _, _)

NotFound(node) == [found |-> FALSE, node |-> node]

\* report_remove.go:211, the mutant that never prunes
PruneEmptyParent_Never(valNode) == FALSE

\* report_remove.go:211: the parent is pruned when the removal left it empty
PruneEmptyParent(valNode) ==
    valNode.Kind = MappingNode /\ Len(valNode.Content) = 0

\* the for loop of removeKeyFromNode from key index i on (1-based)
removeLoop(node, parts, i) ==
    IF i > Len(node.Content) - 1 THEN NotFound(node)
    ELSE
      LET keyNode == node.Content[i]
          valNode == node.Content[i + 1]
      IN  IF keyNode.Value # parts[1] THEN removeLoop(node, parts, i + 2)
          ELSE IF Len(parts) = 1
            THEN [found |-> TRUE, node |-> [node EXCEPT !.Content = DropPair(@, i)]]
          ELSE
            LET r == removeKeyFromNode(valNode, Tail(parts))
            IN  IF r.found
                  THEN IF PruneEmptyParent(r.node)
                         THEN [found |-> TRUE,
                               node |-> [node EXCEPT !.Content = DropPair(@, i)]]
                         ELSE [found |-> TRUE,
                               node |-> [node EXCEPT !.Content[i + 1] = r.node]]
                  ELSE removeLoop(node, parts, i + 2)

\* removes the dotted path parts below node; found tells whether it was there
removeKeyFromNode(node, parts) ==
    IF node.Kind # MappingNode \/ Len(parts) = 0 THEN NotFound(node)
    ELSE removeLoop(node, parts, 1)

\* report_remove.go:163-165, the mutant that counts every key of the set
CountRemoved_Always(removed, found) == removed + 1

\* report_remove.go:163-165: removed++ when the key was found and removed
CountRemoved(removed, found) == IF found THEN removed + 1 ELSE removed

RECURSIVE removeInOrder(_, _, _, _)
\* the range loop of removeKeysFromFile over the keys, in iteration order
removeInOrder(root, order, i, removed) ==
    IF i > Len(order) THEN [root |-> root, removed |-> removed]
    ELSE LET r == removeKeyFromNode(root, Split(order[i], Dot))
         IN  removeInOrder(r.node, order, i + 1, CountRemoved(removed, r.found))

\* report_remove.go:168, the mutant that rewrites the file in any case
SkipWrite_Never(removed) == FALSE

\* report_remove.go:168: nothing removed, nothing written
SkipWrite(removed) == removed = 0

\* what os.WriteFile can do to a file
WriteOutcomes == {"ok", "denied", "truncated"}

\* os.WriteFile(path, tree): the file after the call
WriteFile(f, root, outcome) ==
    CASE outcome = "ok" -> [kind |-> "doc", root |-> root, mtime |-> f.mtime + 1]
      [] outcome = "denied" -> f
      [] outcome = "truncated" -> [kind |-> "empty", root |-> ZeroNode, mtime |-> f.mtime + 1]

\* removeKeysFromFile(path, keys): order is the iteration order of the key map,
\* outcome what the final os.WriteFile does
removeKeysFromFile(f, order, outcome) ==
    IF f.kind \in {"missing", "unreadable"}
      THEN [file |-> f, removed |-> 0, err |-> "read"]
    ELSE IF f.kind = "invalid"
      THEN [file |-> f, removed |-> 0, err |-> "parsing"]
    ELSE IF f.kind = "empty"
      THEN [file |-> f, removed |-> 0, err |-> ""]
    ELSE IF f.root.Kind # MappingNode
      THEN [file |-> f, removed |-> 0, err |-> ""]
    ELSE
      LET r == removeInOrder(f.root, order, 1, 0)
      IN  IF SkipWrite(r.removed)
            THEN [file |-> f, removed |-> 0, err |-> ""]
          ELSE IF outcome # "ok"
            THEN [file |-> WriteFile(f, r.root, outcome), removed |-> 0, err |-> "writing"]
          ELSE [file |-> WriteFile(f, r.root, outcome), removed |-> r.removed, err |-> ""]


----------------------------------------------------------------------------
(* The files and key sets the removal is run on *)

\* path segments used in generated documents and keys
Segs == {S1("a"), S1("b")}

\* the text of generated scalar values
PlainValue == S1("x")

\* the key names of the pairs of a Content sequence
KeysOf(content) == {content[i].Value : i \in {j \in 1..Len(content) : j % 2 = 1}}

RECURSIVE NodesOfSize(_), Forests(_)
\* the Content sequences holding n pairs in all (nested ones included), the keys
\* of one mapping distinct
Forests(n) ==
    IF n = 0 THEN {<<>>}
    ELSE UNION {
        {<<KeyNode(k, <<>>), v>> \o rest :
            v \in NodesOfSize(m),
            rest \in {r \in Forests(n - 1 - m) : k \notin KeysOf(r)}}
        : k \in Segs, m \in 0..(n - 1)}

\* the value nodes holding n pairs: a scalar or an empty mapping for 0
NodesOfSize(n) ==
    IF n = 0 THEN {Leaf("!!str", PlainValue), Map(<<>>)}
    ELSE {Map(c) : c \in Forests(n)}

\* documents whose root is a mapping, of at most MaxNodes pairs
MappingRoots == UNION {{Map(c) : c \in Forests(n)} : n \in 0..MaxNodes}

DocFile(root) == [kind |-> "doc", root |-> root, mtime |-> 0]
OtherFile(kind) == [kind |-> kind, root |-> ZeroNode, mtime |-> 0]

\* the files removeKeysFromFile is run on: documents, a scalar document, an
\* empty file, a file that does not parse and one that cannot be read
RemoveFiles ==
    {DocFile(r) : r \in MappingRoots}
      \cup {DocFile(Leaf("!!str", PlainValue))}
      \cup {OtherFile(k) : k \in {"empty", "invalid", "unreadable"}}

\* the keys tried on a document: every path of it, and every path of it (and the
\* root) extended by one segment
KeysFor(root) ==
    {Join(p \o <<s>>, Dot) : p \in AllPaths(root) \cup {<<>>}, s \in Segs}

KeySetsFor(root) == {K \in SUBSET KeysFor(root) : Cardinality(K) <= MaxKeys}

NoArgs == [none |-> TRUE]
\* a source tree with no source file
EmptyTree == [direct |-> {}, indirect |-> {}, templates |-> {}]
NoRet == [none |-> TRUE]
\* the command line tool runs without the main process
NoModule == [none |-> TRUE]

InitRemove ==
    /\ en = DocFile(Map(<<>>))
    /\ tree = EmptyTree
    /\ file \in RemoveFiles
    /\ pre = file
    /\ op = "none"
    /\ args = NoArgs
    /\ ret = NoRet
    /\ i18n = NoModule

\* one run of removeKeysFromFile on the file
Remove ==
    /\ op = "none"
    /\ \E keys \in KeySetsFor(file.root), outcome \in WriteOutcomes :
         \E order \in Perms(keys) :
            LET r == removeKeysFromFile(file, order, outcome)
            IN  /\ file' = r.file
                /\ pre' = file
                /\ op' = "remove"
                /\ args' = [keys |-> keys, order |-> order, outcome |-> outcome]
                /\ ret' = [removed |-> r.removed, err |-> r.err]
                /\ UNCHANGED <<en, tree, i18n>>

NextRemove == Remove

SpecRemove == InitRemove /\ [][NextRemove]_vars


----------------------------------------------------------------------------
(* YAML helpers: flatten, scalars, writeNestedYAML *)

\* the characters of the model in byte order
Alphabet ==
    <<"\n", " ", "\"", "#", "$", "'", "-", ".", "0", "1", "8", ":", "<", ">",
      "I", "\\", "_", "a", "b", "c", "i", "l", "n", "v", "w", "x", "y", "{", "|", "}">>

\* position of a character in byte order
Ord(c) == CHOOSE i \in 1..Len(Alphabet) : Alphabet[i] = c

RECURSIVE StrLess(_, _)
\* s < t on Go strings: byte-wise, a proper prefix first
StrLess(s, t) ==
    IF Len(t) = 0 THEN FALSE
    ELSE IF Len(s) = 0 THEN TRUE
    ELSE IF s[1] = t[1] THEN StrLess(Tail(s), Tail(t))
    ELSE Ord(s[1]) < Ord(t[1])

RECURSIVE SortKeys(_)
\* sort.Strings / sort.Slice by key on a set of distinct keys
SortKeys(K) ==
    IF K = {} THEN <<>>
    ELSE LET m == CHOOSE k \in K : \A o \in K \ {k} : StrLess(k, o)
         IN  <<m>> \o SortKeys(K \ {m})

Newline == "\n"
Space == " "
NilText == <<"<", "n", "i", "l", ">">>
Digits == {"0", "1", "8"}

Contains(s, c) == \E i \in 1..Len(s) : s[i] = c

\* the tag the YAML resolver gives a plain scalar
ResolveTag(text) ==
    IF Len(text) = 0 THEN "!!null"
    ELSE IF \A i \in 1..Len(text) : text[i] \in Digits THEN "!!int"
    ELSE "!!str"

\* fmt.Sprintf("%v", val) of the decoded scalar of a value node
FmtV(node) == IF node.Tag = "!!null" THEN NilText ELSE node.Value

\* yaml.Unmarshal into map[string]interface{} rejects a mapping with a repeated key
RECURSIVE UniqueKeys(_)
UniqueKeys(node) ==
    node.Kind = MappingNode =>
        /\ \A i, j \in KeyIdx(node) : i # j => node.Content[i].Value # node.Content[j].Value
        /\ \A i \in KeyIdx(node) : UniqueKeys(node.Content[i + 1])

RECURSIVE FlattenPairs(_, _)
\* flattenYAML(prefix, node) as the set of <<dotted key, value string>>
FlattenPairs(prefix, node) ==
    UNION {
        LET k == node.Content[i].Value
            key == IF prefix = <<>> THEN k ELSE Dotted(prefix, k)
            val == node.Content[i + 1]
        IN  IF val.Kind = MappingNode THEN FlattenPairs(key, val)
            ELSE {<<key, FmtV(val)>>}
        : i \in KeyIdx(node)}

\* a set of <<key, x>> pairs with distinct keys as the map key -> x
AsMap(pairs) == [k \in {q[1] : q \in pairs} |-> (CHOOSE q \in pairs : q[1] = k)[2]]

EmptyMap == AsMap({})

\* loadYAMLFlat(path): os.ReadFile, yaml.Unmarshal into a map, flattenYAML
loadYAMLFlat(f) ==
    IF f.kind \in {"missing", "unreadable"} THEN [err |-> "read", m |-> EmptyMap]
    ELSE IF f.kind = "invalid" THEN [err |-> "parsing", m |-> EmptyMap]
    ELSE IF f.kind = "empty" THEN [err |-> "", m |-> EmptyMap]
    ELSE IF f.root.Kind # MappingNode \/ ~UniqueKeys(f.root)
      THEN [err |-> "parsing", m |-> EmptyMap]
    ELSE [err |-> "", m |-> AsMap(FlattenPairs(<<>>, f.root))]

RECURSIVE FlattenComments(_, _)
\* flattenNodeWithComments(prefix, node, result): the <<key, entry>> assignments
\* in the order they are made
FlattenComments(prefix, node) ==
    IF node.Kind # MappingNode THEN <<>>
    ELSE LET step(i) ==
               LET k == node.Content[i].Value
                   key == IF prefix = <<>> THEN k ELSE Dotted(prefix, k)
                   val == node.Content[i + 1]
               IN  IF val.Kind = MappingNode THEN FlattenComments(key, val)
                   ELSE << <<key, [key |-> key, value |-> val.Value,
                                   comment |-> node.Content[i].HeadComment]>> >>
             RECURSIVE from(_)
             from(i) == IF i > Len(node.Content) - 1 THEN <<>> ELSE step(i) \o from(i + 2)
         IN  from(1)

\* the map a sequence of assignments leaves: the last assignment to a key wins
LastWins(assigns) ==
    [k \in {assigns[i][1] : i \in 1..Len(assigns)} |->
        assigns[CHOOSE i \in 1..Len(assigns) :
                    /\ assigns[i][1] = k
                    /\ \A j \in 1..Len(assigns) : assigns[j][1] = k => j <= i][2]]

\* loadYAMLWithComments(path)
loadYAMLWithComments(f) ==
    IF f.kind \in {"missing", "unreadable"} THEN [err |-> "read", m |-> EmptyMap]
    ELSE IF f.kind = "invalid" THEN [err |-> "parsing", m |-> EmptyMap]
    ELSE IF f.kind = "empty" THEN [err |-> "", m |-> EmptyMap]
    ELSE [err |-> "", m |-> LastWins(FlattenComments(<<>>, f.root))]

\* strings.TrimLeft(line, " ")
RECURSIVE TrimLeftSpaces(_)
TrimLeftSpaces(line) ==
    IF Len(line) > 0 /\ line[1] = Space THEN TrimLeftSpaces(Tail(line)) ELSE line

\* s has the two characters colon, space somewhere
HasColonSpace(s) == \E i \in 1..(Len(s) - 1) : s[i] = ":" /\ s[i + 1] = Space

\* the plain form of s would not read back as the string s
NeedsQuotes(s) ==
    \/ s[1] = Space \/ s[Len(s)] = Space
    \/ s[1] \in {"#", "'", "|", ">", "-", ":"}
    \/ HasColonSpace(s)

\* the indent yaml.Marshal gives the body of a block scalar
MarshalIndent == <<Space, Space, Space, Space>>

\* yamlScalar(s): the marshalled scalar as [style, lines]; lines are the physical
\* lines of the text, a quoted scalar being kept as its content beside its style
yamlScalar(s) ==
    IF s = <<>> THEN [style |-> "single", lines |-> << <<>> >>]
    ELSE IF Contains(s, Newline)
      THEN LET raw == Split(s, Newline)
               final == raw[Len(raw)] = <<>>
               body == IF final THEN SubSeq(raw, 1, Len(raw) - 1) ELSE raw
           IN  [style |-> "literal",
                lines |-> <<IF final THEN <<"|">> ELSE <<"|", "-">> >>
                            \o [i \in 1..Len(body) |->
                                   IF body[i] = <<>> THEN <<>> ELSE MarshalIndent \o body[i]]]
    ELSE IF ResolveTag(s) # "!!str" THEN [style |-> "double", lines |-> <<s>>]
    ELSE IF NeedsQuotes(s) THEN [style |-> "single", lines |-> <<s>>]
    ELSE [style |-> "plain", lines |-> <<s>>]

Min(a, b) == IF a < b THEN a ELSE b

RECURSIVE CommonFrom(_, _, _, _)
\* the loop that counts the parent segments shared with the previous key
CommonFrom(parts, prevParts, j, maxParent) ==
    IF j >= maxParent THEN j
    ELSE IF parts[j + 1] = prevParts[j + 1]
      THEN CommonFrom(parts, prevParts, j + 1, maxParent)
    ELSE j

\* writeNestedYAML line 182, the mutant that never separates the groups
NewTopLevel_Never(parts, prevParts) == FALSE

\* writeNestedYAML line 182: the entry opens another top-level group
NewTopLevel(parts, prevParts) == Len(prevParts) > 0 /\ parts[1] # prevParts[1]

\* writeNestedYAML lines 197-203, the mutant that writes no comment
CommentLines_None(comment, depth) == <<>>

\* writeNestedYAML lines 197-203: the lines of the comment, at the leaf's indent
CommentLines(comment, depth) ==
    [n \in 1..Len(comment) |->
        [kind |-> "comment", indent |-> depth, key |-> <<>>,
         style |-> "", text |-> comment[n], body |-> <<>>]]

\* the lines writeNestedYAML writes for one entry after the key prevParts
EntryLines(e, prevParts) ==
    LET parts == Split(e.key, Dot)
        maxParent == Min(Len(parts) - 1, Len(prevParts) - 1)
        common == IF maxParent <= 0 THEN 0 ELSE CommonFrom(parts, prevParts, 0, maxParent)
        blank == IF NewTopLevel(parts, prevParts)
                   THEN << [kind |-> "blank", indent |-> 0, key |-> <<>>,
                            style |-> "", text |-> <<>>, body |-> <<>>] >>
                   ELSE <<>>
        parents == [n \in 1..(Len(parts) - 1 - common) |->
                      [kind |-> "parent", indent |-> common + n - 1,
                       key |-> parts[common + n], style |-> "", text |-> <<>>,
                       body |-> <<>>]]
        depth == Len(parts) - 1
        comments == CommentLines(e.comment, depth)
        scalar == yamlScalar(e.value)
        lines == scalar.lines
        leaf == [kind |-> "leaf", indent |-> depth, key |-> parts[Len(parts)],
                 style |-> scalar.style, text |-> lines[1],
                 body |-> [n \in 1..(Len(lines) - 1) |-> TrimLeftSpaces(lines[n + 1])]]
    IN  blank \o parents \o comments \o <<leaf>>

RECURSIVE LinesFrom(_, _, _)
LinesFrom(entries, i, prevParts) ==
    IF i > Len(entries) THEN <<>>
    ELSE EntryLines(entries[i], prevParts)
           \o LinesFrom(entries, i + 1, Split(entries[i].key, Dot))

\* writeNestedYAML(w, entries) for the entry map merged: sorts by key and writes
writeNestedYAML(merged) ==
    LET keys == SortKeys(DOMAIN merged)
    IN  LinesFrom([i \in 1..Len(keys) |-> merged[keys[i]]], 1, <<>>)

\* the scalar node a written leaf reads back as
ReadLeaf(ln) ==
    CASE ln.style = "plain" -> Leaf(ResolveTag(ln.text), ln.text)
      [] ln.style \in {"single", "double"} -> Leaf("!!str", ln.text)
      [] ln.style = "literal" ->
            Leaf("!!str", Join(ln.body, Newline)
                            \o (IF ln.text = <<"|">> THEN <<Newline>> ELSE <<>>))

RECURSIVE ParsePairs(_, _, _, _)
\* the YAML parser on written lines: the pairs of the block mapping at indent d
\* from line i on; pending are the comment lines met since the last pair
ParsePairs(lines, i, d, pending) ==
    IF i > Len(lines) THEN [content |-> <<>>, next |-> i]
    ELSE
      LET ln == lines[i]
      IN  IF ln.kind = "blank" THEN ParsePairs(lines, i + 1, d, <<>>)
          ELSE IF ln.indent < d THEN [content |-> <<>>, next |-> i]
          ELSE IF ln.kind = "comment"
            THEN ParsePairs(lines, i + 1, d, Append(pending, ln.text))
          ELSE IF ln.kind = "parent"
            THEN LET sub == ParsePairs(lines, i + 1, d + 1, <<>>)
                     rest == ParsePairs(lines, sub.next, d, <<>>)
                 IN  [content |-> <<KeyNode(ln.key, pending), Map(sub.content)>>
                                    \o rest.content,
                      next |-> rest.next]
          ELSE LET rest == ParsePairs(lines, i + 1, d, <<>>)
               IN  [content |-> <<KeyNode(ln.key, pending), ReadLeaf(ln)>> \o rest.content,
                    next |-> rest.next]

\* the document tree of a file holding the written lines
ParseLines(lines) == Map(ParsePairs(lines, 1, 0, <<>>).content)

----------------------------------------------------------------------------
(* report_merge.go *)

\* mergeEntry{key, value, comment}
Entry(k, v, c) == [key |-> k, value |-> v, comment |-> c]

\* report_merge.go:45-52: the existing entries; a file that cannot be read or
\* parsed leaves the map empty
ExistingOf(f) == LET l == loadYAMLFlat(f) IN IF l.err = "" THEN l.m ELSE EmptyMap

\* report_merge.go:90, the mutant that keeps an entry the map already has
Override_KeepOld(merged, e) ==
    IF e.key \in DOMAIN merged THEN merged
    ELSE [k \in DOMAIN merged \cup {e.key} |-> IF k = e.key THEN e ELSE merged[k]]

\* report_merge.go:90: merged[e.key] = e
Override(merged, e) ==
    [k \in DOMAIN merged \cup {e.key} |-> IF k = e.key THEN e ELSE merged[k]]

RECURSIVE MergeFrom(_, _, _, _)
\* report_merge.go:86-91: the loop over the new entries
MergeFrom(merged, added, newEntries, i) ==
    IF i > Len(newEntries) THEN [merged |-> merged, added |-> added]
    ELSE LET e == newEntries[i]
         IN  MergeFrom(Override(merged, e),
                       IF e.key \in DOMAIN merged THEN added ELSE added + 1,
                       newEntries, i + 1)

\* report_merge.go:76, the mutant that goes on with no entry
NoEntries_Never(newEntries) == FALSE

\* report_merge.go:76: len(newEntries) == 0
NoEntries(newEntries) == Len(newEntries) = 0

\* reportMerge(root, locale, files) on the locale file f: input is what the
\* input files or stdin give, [readable, entries] with entries the result of
\* parseMergeInput; outcome is what the final os.WriteFile does
reportMerge(f, input, outcome) ==
    LET existing == ExistingOf(f)
        seed == [k \in DOMAIN existing |-> Entry(k, existing[k], <<>>)]
    IN  IF ~input.readable
          THEN [file |-> f, err |-> "reading", added |-> 0, total |-> 0]
        ELSE IF NoEntries(input.entries)
          THEN [file |-> f, err |-> "no translation entries found in input",
                added |-> 0, total |-> 0]
        ELSE
          LET r == MergeFrom(seed, 0, input.entries, 1)
              written == WriteFile(f, ParseLines(writeNestedYAML(r.merged)), outcome)
          IN  IF outcome # "ok"
                THEN [file |-> written, err |-> "writing", added |-> 0, total |-> 0]
              ELSE [file |-> written, err |-> "", added |-> r.added,
                    total |-> Cardinality(DOMAIN r.merged)]

----------------------------------------------------------------------------
(* The locale files and inputs the merge is run on *)

A == S1("a")
B == S1("b")
ReasonOld == <<"# @reason old">>
ReasonNew == <<"# @reason new">>
ReasonLong == <<"# @reason long", "#   continued">>
Pair(k, comment, val) == <<KeyNode(k, comment), val>>
Str(v) == Leaf("!!str", v)

\* locale files as a translator leaves them
MergeDocs ==
    { \* a: {a: x (commented), b: y}
      Map(Pair(A, <<>>, Map(Pair(A, ReasonOld, Str(S1("x")))
                              \o Pair(B, <<>>, Str(S1("y")))))),
      \* a: {a: {b: x (commented)}}
      Map(Pair(A, <<>>, Map(Pair(A, <<>>, Map(Pair(B, ReasonLong, Str(S1("x")))))))),
      \* a: {b: a two-line text whose second line is indented, a: 80}
      Map(Pair(A, <<>>, Map(Pair(B, <<>>, Str(<<"x", Newline, Space, "y">>))
                              \o Pair(A, <<>>, Leaf("!!int", <<"8", "0">>))))),
      \* a: x at the top level, b: {a: null}
      Map(Pair(A, <<>>, Str(S1("x")))
            \o Pair(B, <<>>, Map(Pair(A, ReasonOld, Leaf("!!null", <<>>))))),
      \* b: {b: y}, a: {}
      Map(Pair(B, <<>>, Map(Pair(B, <<>>, Str(S1("y"))))) \o Pair(A, <<>>, Map(<<>>))),
      \* the empty mapping
      Map(<<>>),
      \* a scalar document
      Str(S1("x")),
      \* a repeated key: a: {a: x}, a: {b: y}
      Map(Pair(A, <<>>, Map(Pair(A, <<>>, Str(S1("x")))))
            \o Pair(A, <<>>, Map(Pair(B, <<>>, Str(S1("y")))))) }

MergeFiles ==
    {DocFile(r) : r \in MergeDocs \cup MappingRoots}
      \cup {OtherFile(k) : k \in {"missing", "empty", "invalid", "unreadable"}}

\* entries as parseMergeInput returns them: valid dotted keys, one-line values
IncomingPool ==
    { Entry(Dotted(A, A), S1("v"), ReasonNew),
      Entry(Dotted(A, A), S1("w"), <<>>),
      Entry(Dotted(A, B), <<>>, <<>>),
      Entry(Dotted(Dotted(A, A), B), S1("v"), ReasonLong),
      Entry(Dotted(B, A), <<"8">>, <<>>) }

\* the inputs of a merge: unreadable, or up to MaxEntries entries
MergeInputs ==
    {[readable |-> FALSE, entries |-> <<>>]}
      \cup {[readable |-> TRUE, entries |-> es] :
              es \in UNION {[1..n -> IncomingPool] : n \in 0..MaxEntries}}

InitMerge ==
    /\ en = DocFile(Map(<<>>))
    /\ tree = EmptyTree
    /\ file \in MergeFiles
    /\ pre = file
    /\ op = "none"
    /\ args = NoArgs
    /\ ret = NoRet
    /\ i18n = NoModule

\* one run of reportMerge on the locale file
Merge ==
    /\ op = "none"
    /\ \E input \in MergeInputs, outcome \in WriteOutcomes :
          LET r == reportMerge(file, input, outcome)
          IN  /\ file' = r.file
              /\ pre' = file
              /\ op' = "merge"
              /\ args' = [readable |-> input.readable, entries |-> input.entries,
                          outcome |-> outcome]
              /\ ret' = [err |-> r.err, added |-> r.added, total |-> r.total]
              /\ UNCHANGED <<en, tree, i18n>>

NextMerge == Merge

SpecMerge == InitMerge /\ [][NextMerge]_vars

----------------------------------------------------------------------------
(* report_translate.go *)

\* report_translate.go:49-53: the pairs of the keys of en-us.yaml that the
\* locale lacks, in sorted key order
MissingPairs(enKeys, localeKeys) ==
    LET keys == SortKeys(DOMAIN enKeys \ DOMAIN localeKeys)
    IN  [i \in 1..Len(keys) |-> [Key |-> keys[i], Value |-> enKeys[keys[i]]]]

\* report_translate.go:57, the mutant that only checks the lower end
BatchOutOfRange_LowOnly(batch, batches) == batch < 1

\* report_translate.go:57: batch < 1 || batch > batches
BatchOutOfRange(batch, batches) == batch < 1 \/ batch > batches

\* the range of Go's int
MaxInt == 2 ^ (IntBits - 1) - 1
MinInt == 0 - 2 ^ (IntBits - 1)

\* the int a sum, difference or product of ints wraps around to
Wrap(x) == ((x - MinInt) % 2 ^ IntBits) + MinInt

\* the quotient of ints, truncated toward zero (b > 0)
GoDiv(a, b) == IF a >= 0 THEN a \div b ELSE 0 - ((0 - a) \div b)

\* report_translate.go:61: size := (total + batches - 1) / batches
BatchSize(total, batches) == GoDiv(Wrap(Wrap(total + batches) - 1), batches)

\* report_translate.go:60-69: start and end of the batch, clamped to total
BatchBounds(total, batch, batches) ==
    LET size == BatchSize(total, batches)
        start == Wrap((batch - 1) * size)
        end == Wrap(start + size)
    IN  [start |-> IF start > total THEN total ELSE start,
         end |-> IF end > total THEN total ELSE end]

\* report_translate.go:70: pairs[start:end] panics unless
\* 0 <= start <= end <= cap(pairs); end is at most len(pairs) here
SliceInRange(start, end, total) == 0 <= start /\ start <= end /\ end <= total

\* reportTranslate(root, locale, format, batch, batches): out is the list of
\* pairs printed, start and end the bounds of the slice taken (0 and total when
\* no batch was asked for)
reportTranslate(enFile, localeFile, batch, batches) ==
    LET enKeys == loadYAMLFlat(enFile)
        localeKeys == loadYAMLFlat(localeFile)
        failed(e) == [err |-> e, out |-> <<>>, start |-> 0, end |-> 0]
    IN  IF enKeys.err # "" THEN failed(enKeys.err)
        ELSE IF localeKeys.err # "" THEN failed(localeKeys.err)
        ELSE
          LET pairs == MissingPairs(enKeys.m, localeKeys.m)
              total == Len(pairs)
          IN  IF batches > 0
                THEN IF BatchOutOfRange(batch, batches)
                       THEN failed("--batch must be between 1 and batches")
                       ELSE LET b == BatchBounds(total, batch, batches)
                            IN  IF SliceInRange(b.start, b.end, total)
                                  THEN [err |-> "",
                                        out |-> Slice(pairs, b.start + 1, b.end),
                                        start |-> b.start, end |-> b.end]
                                  ELSE [err |-> "panic: slice bounds out of range",
                                        out |-> <<>>,
                                        start |-> b.start, end |-> b.end]
                ELSE [err |-> "", out |-> pairs, start |-> 0, end |-> total]

----------------------------------------------------------------------------
(* The catalogs and options translate is run on *)

C == S1("c")

\* the keys of the reference catalog, in sorted order
EnKeyPool ==
    <<Dotted(A, A), Dotted(A, B), Dotted(A, C), Dotted(B, A), Dotted(B, B),
      Dotted(B, C), Dotted(C, A)>>

\* keys a locale file may hold: three of the reference catalog, one stale
LocaleKeyPool == {Dotted(A, A), Dotted(A, B), Dotted(B, A), Dotted(C, C)}

\* the document a catalog with the keys K is kept in
CatalogDoc(K, v) == ParseLines(writeNestedYAML([k \in K |-> Entry(k, v, <<>>)]))

EnFiles ==
    {DocFile(CatalogDoc({EnKeyPool[i] : i \in 1..n}, S1("x"))) :
        n \in 0..Min(MaxEn, Len(EnKeyPool))}

LocaleFiles ==
    {DocFile(CatalogDoc(K, S1("y"))) : K \in SUBSET LocaleKeyPool}
      \cup {OtherFile(k) : k \in {"missing", "invalid"}}

\* values of --batch and --batches (0 when the flag is not given): the small
\* ones and the largest an int holds
BatchValues == ((0 - 1)..(MaxBatches + 1)) \cup {MaxInt}
BatchesValues == ((0 - 1)..MaxBatches) \cup {MaxInt - 1, MaxInt}

InitTranslate ==
    /\ en \in EnFiles
    /\ tree = EmptyTree
    /\ file \in LocaleFiles
    /\ pre = file
    /\ op = "none"
    /\ args = NoArgs
    /\ ret = NoRet
    /\ i18n = NoModule

\* one run of translate; first is the batch the series of runs started with and
\* acc what the runs of the series have printed so far
TranslateRun(batch, batches, first, acc) ==
    LET r == reportTranslate(en, file, batch, batches)
    IN  /\ op' = "translate"
        /\ pre' = file
        /\ args' = [batch |-> batch, batches |-> batches, first |-> first]
        /\ ret' = [err |-> r.err, out |-> r.out, start |-> r.start, end |-> r.end,
                   acc |-> acc \o r.out]
        /\ UNCHANGED <<en, file, tree, i18n>>

\* translate is run with some --batch and --batches
Translate ==
    /\ op = "none"
    /\ \E batch \in BatchValues, batches \in BatchesValues :
          TranslateRun(batch, batches, batch, <<>>)

\* the next batch of the series is asked for (README, Translate missing keys)
TranslateNextBatch ==
    /\ op = "translate"
    /\ ret.err = ""
    /\ args.batches > 0
    /\ args.batch < args.batches
    /\ TranslateRun(args.batch + 1, args.batches, args.first, ret.acc)

NextTranslate == Translate \/ TranslateNextBatch

SpecTranslate == InitTranslate /\ [][NextTranslate]_vars

----------------------------------------------------------------------------
(* repo.go: key references and dynamic key patterns found in the source tree *)

\* segmentWildcard, the mutant that lets an interpolation run over a dot
WildChars_WithDot ==
    {"-", ".", "0", "1", "8", "I", "_", "a", "b", "c", "i", "l", "n", "v", "w", "x", "y"}

\* segmentWildcard: the characters of [a-zA-Z0-9_-]
WildChars ==
    {"-", "0", "1", "8", "I", "_", "a", "b", "c", "i", "l", "n", "v", "w", "x", "y"}

\* interpolationSplit, \$\{[^}]+\}: where the interpolation that starts at
\* s[i] ends, 0 when none starts there
InterpolationAt(s, i) ==
    IF /\ i + 3 <= Len(s)
       /\ s[i] = "$" /\ s[i + 1] = "{" /\ s[i + 2] # "}"
       /\ \E j \in (i + 3)..Len(s) : s[j] = "}"
      THEN CHOOSE j \in (i + 3)..Len(s) :
               s[j] = "}" /\ \A h \in (i + 3)..(j - 1) : s[h] # "}"
      ELSE 0

RECURSIVE SplitInterpolations(_, _, _)
\* interpolationSplit.Split(template, -1)
SplitInterpolations(s, i, cur) ==
    IF i > Len(s) THEN <<cur>>
    ELSE LET j == InterpolationAt(s, i)
         IN  IF j > 0 THEN <<cur>> \o SplitInterpolations(s, j + 1, <<>>)
             ELSE SplitInterpolations(s, i + 1, Append(cur, s[i]))

\* templateToKeyRegex(template): the expression ^ part segmentWildcard part
\* ... part $, kept as the list of its quoted literal parts
templateToKeyRegex(template) == SplitInterpolations(template, 1, <<>>)

RECURSIVE MatchString(_, _)
\* re.MatchString(key) for an expression built by templateToKeyRegex
MatchString(re, key) ==
    /\ IsPrefix(re[1], key)
    /\ LET rest == SubSeq(key, Len(re[1]) + 1, Len(key))
       IN  IF Len(re) = 1 THEN rest = <<>>
           ELSE \E n \in 1..Len(rest) :
                   /\ \A i \in 1..n : rest[i] \in WildChars
                   /\ MatchString(Tail(re), SubSeq(rest, n + 1, Len(rest)))

\* strings.Contains(template, "${")
HasInterpolationMark(t) == \E i \in 1..(Len(t) - 1) : t[i] = "$" /\ t[i + 1] = "{"

\* extractDynamicPatterns over the lines of the tree
extractDynamicPatterns(templates) ==
    {[Template |-> t, Regex |-> templateToKeyRegex(t)] :
        t \in {u \in templates : HasInterpolationMark(u)}}

\* scanFiles(root, keys): the keys with a literal reference, and the dynamic
\* patterns; an indirect match counts only for a key of the catalog
scanFiles(t, keys) ==
    [refs |-> t.direct \cup (t.indirect \cap keys),
     dynamics |-> extractDynamicPatterns(t.templates)]

\* findKeyReferences, the mutant that does not resolve the dynamic patterns
findKeyReferences_NoDynamic(t, keys) == scanFiles(t, keys).refs

\* findKeyReferences(root, keys): the keys that have a reference, a key matched
\* by a dynamic pattern being given the reference of the pattern
findKeyReferences(t, keys) ==
    LET scan == scanFiles(t, keys)
    IN  scan.refs \cup {k \in keys : \E d \in scan.dynamics : MatchString(d.Regex, k)}

----------------------------------------------------------------------------
(* report_missing.go, stale, report_unused.go, report_check.go *)

\* _, found := m[k], the mutant that finds every key
found_Always(m, k) == TRUE

\* _, found := m[k]
found(m, k) == k \in DOMAIN m

\* reportMissing(root, locale, format)
reportMissing(enFile, localeFile) ==
    LET enKeys == loadYAMLFlat(enFile)
        localeKeys == loadYAMLFlat(localeFile)
    IN  IF enKeys.err # "" THEN [err |-> enKeys.err, out |-> <<>>]
        ELSE IF localeKeys.err # "" THEN [err |-> localeKeys.err, out |-> <<>>]
        ELSE [err |-> "",
              out |-> SelectSeq(SortKeys(DOMAIN enKeys.m), LAMBDA k : ~found(localeKeys.m, k))]

\* reportStale(root, locale, format)
reportStale(enFile, localeFile) ==
    LET enKeys == loadYAMLFlat(enFile)
        localeKeys == loadYAMLFlat(localeFile)
    IN  IF enKeys.err # "" THEN [err |-> enKeys.err, out |-> <<>>]
        ELSE IF localeKeys.err # "" THEN [err |-> localeKeys.err, out |-> <<>>]
        ELSE [err |-> "",
              out |-> SelectSeq(SortKeys(DOMAIN localeKeys.m), LAMBDA k : ~found(enKeys.m, k))]


\* reportUnused(root, format)
reportUnused(enFile, t) ==
    LET keys == loadYAMLFlat(enFile)
    IN  IF keys.err # "" THEN [err |-> keys.err, out |-> <<>>]
        ELSE LET refs == findKeyReferences(t, DOMAIN keys.m)
             IN  [err |-> "",
                  out |-> SelectSeq(SortKeys(DOMAIN keys.m), LAMBDA k : k \notin refs)]

\* printResult, the mutant that never fails a category
Failed_Never(count) == FALSE

\* printResult: a category fails when its count is above zero
Failed(count) == count > 0

\* one line of the output of check
printResult(label, count) ==
    [label |-> label, count |-> count, status |-> IF Failed(count) THEN "FAIL" ELSE "OK"]

\* runCheck(args), after the flags are read
runCheck(enFile, localeFile, t) ==
    LET enKeys == loadYAMLFlat(enFile)
        localeKeys == loadYAMLFlat(localeFile)
        failed(e) == [err |-> e, lines |-> <<>>, passed |-> FALSE]
    IN  IF enKeys.err # "" THEN failed(enKeys.err)
        ELSE IF localeKeys.err # "" THEN failed(localeKeys.err)
        ELSE
          LET refs == findKeyReferences(t, DOMAIN enKeys.m)
              unusedCount == Cardinality({k \in DOMAIN enKeys.m : k \notin refs})
              staleCount ==
                  Cardinality({k \in DOMAIN localeKeys.m : ~found(enKeys.m, k)})
              missingCount ==
                  Cardinality({k \in DOMAIN enKeys.m : ~found(localeKeys.m, k)})
              lines == <<printResult("unused keys", unusedCount),
                         printResult("stale keys", staleCount),
                         printResult("keys missing", missingCount)>>
              passed == \A i \in 1..3 : lines[i].status = "OK"
          IN  [err |-> IF passed THEN "" ELSE "checks failed",
               lines |-> lines, passed |-> passed]

----------------------------------------------------------------------------
(* The catalogs and source trees the reports are run on *)

\* the template a.${v}
TemplateA == <<"a", ".", "$", "{", "v", "}">>
\* the template b.${v}.a
TemplateBA == <<"b", ".", "$", "{", "v", "}", ".", "a">>

\* what a scan can find: t('a.a') and t('b.b'), the property values 'a.b' and
\* 'c.c', and the two template literals
Trees ==
    {[direct |-> d, indirect |-> i, templates |-> t] :
        d \in SUBSET {Dotted(A, A), Dotted(B, B)},
        i \in SUBSET {Dotted(A, B), Dotted(C, C)},
        t \in SUBSET {TemplateA, TemplateBA}}

InitReport ==
    /\ en \in EnFiles \cup {OtherFile("invalid")}
    /\ file \in LocaleFiles
    /\ tree \in Trees
    /\ pre = file
    /\ op = "none"
    /\ args = NoArgs
    /\ ret = NoRet
    /\ i18n = NoModule

\* a report ran and printed r; the reports write no file
Reported(name, r) ==
    /\ op = "none"
    /\ op' = name
    /\ pre' = file
    /\ args' = NoArgs
    /\ ret' = r
    /\ UNCHANGED <<en, file, tree, i18n>>

ReportMissing == Reported("missing", reportMissing(en, file))

ReportStale == Reported("stale", reportStale(en, file))

ReportUnused == Reported("unused", reportUnused(en, tree))

\* translate without --batches
ReportTranslate == Reported("translate-all", reportTranslate(en, file, 0, 0))

Check == Reported("check", runCheck(en, file, tree))

NextReport == ReportMissing \/ ReportStale \/ ReportUnused \/ ReportTranslate \/ Check

SpecReport == InitReport /\ [][NextReport]_vars

----------------------------------------------------------------------------
(* writeNestedYAML on its own: entries in any order written to a file *)

\* a text of two lines, the second one indented
TwoLines == <<"x", Newline, Space, "y">>

\* entries handed to writeNestedYAML: top-level and nested keys, a key that is
\* the parent path of another, one-line and two-line comments, plain, numeric,
\* empty and two-line values
WritePool ==
    { Entry(A, S1("x"), <<>>),
      Entry(Dotted(A, A), S1("x"), ReasonOld),
      Entry(Dotted(A, B), TwoLines, <<>>),
      Entry(Dotted(A, B), S1("y"), ReasonNew),
      Entry(Dotted(Dotted(A, A), B), S1("v"), ReasonLong),
      Entry(B, <<>>, <<>>),
      Entry(Dotted(B, A), <<"8">>, <<>>),
      Entry(Dotted(C, A), S1("x"), ReasonLong) }

\* up to MaxWritten entries with distinct keys, in any order
WriteInputs ==
    UNION {{es \in [1..n -> WritePool] :
               \A i, j \in 1..n : i # j => es[i].key # es[j].key} : n \in 1..MaxWritten}

\* writeNestedYAML lines 154-159: entryMap
EntryMap(entries) == LastWins([i \in 1..Len(entries) |-> <<entries[i].key, entries[i]>>])

InitWrite ==
    /\ en = DocFile(Map(<<>>))
    /\ tree = EmptyTree
    /\ file = OtherFile("missing")
    /\ pre = file
    /\ op = "none"
    /\ args = NoArgs
    /\ ret = NoRet
    /\ i18n = NoModule

\* the entries are written with writeNestedYAML and the text is stored
Write ==
    /\ op = "none"
    /\ \E entries \in WriteInputs :
          LET lines == writeNestedYAML(EntryMap(entries))
          IN  /\ file' = WriteFile(file, ParseLines(lines), "ok")
              /\ pre' = file
              /\ op' = "write"
              /\ args' = [entries |-> entries]
              /\ ret' = [lines |-> lines]
              /\ UNCHANGED <<en, tree, i18n>>

NextWrite == Write

SpecWrite == InitWrite /\ [][NextWrite]_vars

----------------------------------------------------------------------------
(* templateToKeyRegex on its own: a template compiled and tried on a key *)

\* a template as the list of its items, literal fragments and interpolations
Lit(text) == [lit |-> TRUE, text |-> text]
Hole(name) == [lit |-> FALSE, text |-> name]

RECURSIVE Render(_)
\* the template literal as it stands in the source
Render(shape) ==
    IF Len(shape) = 0 THEN <<>>
    ELSE (IF shape[1].lit THEN shape[1].text
          ELSE <<"$", "{">> \o shape[1].text \o <<"}">>) \o Render(Tail(shape))

\* templates in the manner of TestTemplateToKeyRegex: a.${v}, a.${v}.b,
\* a.${v}I, a.${v}.${w}, a.${v}.${w}I, a.${v}${w}, ${v}.a and a.b
TemplateShapes ==
    { <<Lit(<<"a", ".">>), Hole(S1("v"))>>,
      <<Lit(<<"a", ".">>), Hole(S1("v")), Lit(<<".", "b">>)>>,
      <<Lit(<<"a", ".">>), Hole(S1("v")), Lit(S1("I"))>>,
      <<Lit(<<"a", ".">>), Hole(S1("v")), Lit(S1(".")), Hole(S1("w"))>>,
      <<Lit(<<"a", ".">>), Hole(S1("v")), Lit(S1(".")), Hole(S1("w")), Lit(S1("I"))>>,
      <<Lit(<<"a", ".">>), Hole(S1("v")), Hole(<<"w", ".", "x">>)>>,
      <<Hole(S1("v")), Lit(<<".", "a">>)>>,
      <<Lit(<<"a", ".", "b">>)>> }

\* every string over a, I and the dot of a length up to n
ShortKeys(n) == UNION {[1..m -> {"a", "I", "."}] : m \in 0..n}

\* longer candidates: instances with '-', '_' and digits, a missing suffix, an
\* empty segment, one segment too many, a character outside the class
LongKeys ==
    { <<"a", ".", "a", ".", "a", "I">>, <<"a", ".", "a", ".", "a", "I", "a">>,
      <<"a", ".", "a", ".", "I", "I">>, <<"a", ".", "a", ".", "a", ".", "I">>,
      <<"a", ".", "a", "-", "8", ".", "b">>, <<"a", ".", "_", ".", "b", "I">>,
      <<"a", ".", "a", ".", "b", ".", "b">>, <<"a", ".", "a", " ", ".", "b">>,
      <<"a", ".", "x", ":", "y">>, <<"b", ".", "a", ".", "b">>,
      <<"a", ".", "-", ".", "_", "I">>, <<"a", ".", "b", Newline>> }

CandidateKeys == ShortKeys(MaxKeyLen) \cup LongKeys

InitMatch ==
    /\ en = DocFile(Map(<<>>))
    /\ tree = EmptyTree
    /\ file = OtherFile("missing")
    /\ pre = file
    /\ op = "none"
    /\ args = NoArgs
    /\ ret = NoRet
    /\ i18n = NoModule

\* a template is compiled and its matcher tried on a key
Match ==
    /\ op = "none"
    /\ \E shape \in TemplateShapes, key \in CandidateKeys :
          /\ op' = "match"
          /\ args' = [shape |-> shape, template |-> Render(shape), key |-> key]
          /\ ret' = [accepted |-> MatchString(templateToKeyRegex(Render(shape)), key)]
          /\ UNCHANGED <<en, file, tree, pre, i18n>>

NextMatch == Match

SpecMatch == InitMatch /\ [][NextMatch]_vars

----------------------------------------------------------------------------
(* stripYAMLQuotes *)

SQuote == "'"
DQuote == "\""
Backslash == "\\"

RECURSIVE ReplaceAll(_, _, _)
\* strings.ReplaceAll(s, old, new) for a non-empty old
ReplaceAll(s, old, new) ==
    IF Len(s) < Len(old) THEN s
    ELSE IF SubSeq(s, 1, Len(old)) = old
      THEN new \o ReplaceAll(SubSeq(s, Len(old) + 1, Len(s)), old, new)
    ELSE <<s[1]>> \o ReplaceAll(Tail(s), old, new)

\* the test for outer quotes, the mutant that forgets the length
Quoted_AnyLength(s, q) == Len(s) >= 1 /\ s[1] = q /\ s[Len(s)] = q

\* len(s) >= 2 && s[0] == q && s[len(s)-1] == q
Quoted(s, q) == Len(s) >= 2 /\ s[1] = q /\ s[Len(s)] = q

\* stripYAMLQuotes(s)
stripYAMLQuotes(s) ==
    LET inner == SubSeq(s, 2, Len(s) - 1)
    IN  IF Quoted(s, SQuote) THEN ReplaceAll(inner, <<SQuote, SQuote>>, <<SQuote>>)
        ELSE IF Quoted(s, DQuote)
          THEN ReplaceAll(ReplaceAll(inner, <<Backslash, DQuote>>, <<DQuote>>),
                          <<Backslash, Backslash>>, <<Backslash>>)
        ELSE s

\* every string of quotes, backslashes and the letter a up to MaxQuoted long
QuoteInputs == UNION {[1..n -> {SQuote, DQuote, Backslash, "a"}] : n \in 0..MaxQuoted}

InitStrip ==
    /\ en = DocFile(Map(<<>>))
    /\ tree = EmptyTree
    /\ file = OtherFile("missing")
    /\ pre = file
    /\ op = "none"
    /\ args = NoArgs
    /\ ret = NoRet
    /\ i18n = NoModule

\* stripYAMLQuotes is applied to a value
Strip ==
    /\ op = "none"
    /\ \E s \in QuoteInputs :
          /\ op' = "strip"
          /\ args' = [s |-> s]
          /\ ret' = [out |-> stripYAMLQuotes(s)]
          /\ UNCHANGED <<en, file, tree, pre, i18n>>

NextStrip == Strip

SpecStrip == InitStrip /\ [][NextStrip]_vars

----------------------------------------------------------------------------
(* extractTranslationText: the text taken from one merge input file *)

\* A text is the sequence of its lines (what strings.Split on the newline
\* gives: a text that ends in a newline has an empty last line).  A line is
\* "blank" (nothing but white space), "json" (its first character after the
\* white space is an opening brace) or "text" (tok holds its words); lead says
\* whether white space stands in front.  A json line carries what encoding/json finds in it.
FlatLine(kind, lead, tok) ==
    [kind |-> kind, lead |-> lead, tok |-> tok,
     valid |-> FALSE, role |-> "", array |-> FALSE, blocks |-> <<>>]

JsonLine(lead, valid, role, array, blocks) ==
    [kind |-> "json", lead |-> lead, tok |-> <<>>,
     valid |-> valid, role |-> role, array |-> array, blocks |-> blocks]

EmptyLine == FlatLine("blank", FALSE, <<>>)

\* The text of a line is the sequence of its words; Ticks is the run of three
\* backquotes that opens and closes a fence.
Ticks == "ticks"

FenceOpen == <<Ticks, "yaml">>

FenceClose == <<Ticks>>

\* strings.Contains on the words of a line
HasSub(s, sub) ==
    \E i \in 0..(Len(s) - Len(sub)) : SubSeq(s, i + 1, i + Len(sub)) = sub

TrimSpace(line) == [line EXCEPT !.lead = FALSE]

\* what the detection looks at: the first line trimmed when the content has a
\* newline, the whole content as it is when it has none
firstLine(lines) == IF Len(lines) >= 2 THEN TrimSpace(lines[1]) ELSE lines[1]

\* len(line) > 0 && line[0] == '{'
StartsWithBrace(line) == line.kind = "json" /\ ~line.lead

RECURSIVE BlockTexts(_, _)
\* the texts of the blocks of type text, from block j on
BlockTexts(blocks, j) ==
    IF j > Len(blocks) THEN <<>>
    ELSE (IF blocks[j].type = "text" THEN <<blocks[j].text>> ELSE <<>>)
           \o BlockTexts(blocks, j + 1)

\* what one line of the input adds to the extracted text
MessageTexts(line) ==
    IF ~StartsWithBrace(TrimSpace(line)) THEN <<>>
    ELSE IF ~line.valid THEN <<>>
    ELSE IF line.role # "assistant" THEN <<>>
    ELSE IF ~line.array THEN <<>>
    ELSE BlockTexts(line.blocks, 1)

RECURSIVE ExtractedTexts(_, _)
ExtractedTexts(lines, i) ==
    IF i > Len(lines) THEN <<>>
    ELSE MessageTexts(lines[i]) \o ExtractedTexts(lines, i + 1)

RECURSIVE Concat(_, _)
Concat(texts, i) ==
    IF i > Len(texts) THEN <<>> ELSE texts[i] \o Concat(texts, i + 1)

\* the lines of the string built by writing every text followed by a newline
ContentOf(texts) == Concat(texts, 1) \o <<EmptyLine>>

\* strings.Contains(content, FenceOpen), the mutant that never finds it
ContainsFence_Never(lines) == FALSE

\* strings.Contains(content, FenceOpen)
ContainsFence(lines) ==
    \E i \in 1..Len(lines) :
        lines[i].kind = "text" /\ HasSub(lines[i].tok, FenceOpen)

RECURSIVE FenceBody(_, _, _)
\* the lines written while inside a fence, from line i on
FenceBody(lines, i, inFence) ==
    IF i > Len(lines) THEN <<>>
    ELSE LET trimmed == TrimSpace(lines[i]) IN
         IF trimmed = FlatLine("text", FALSE, FenceOpen)
           THEN FenceBody(lines, i + 1, TRUE)
         ELSE IF trimmed = FlatLine("text", FALSE, FenceClose) /\ inFence
           THEN FenceBody(lines, i + 1, FALSE)
         ELSE IF inFence
           THEN <<lines[i]>> \o FenceBody(lines, i + 1, inFence)
         ELSE FenceBody(lines, i + 1, inFence)

extractTranslationText(lines) ==
    LET jsonl   == StartsWithBrace(firstLine(lines))
        texts   == IF jsonl THEN ExtractedTexts(lines, 1) ELSE <<>>
        content == IF jsonl THEN ContentOf(texts) ELSE lines
        body    == FenceBody(content, 1, FALSE)
    IN  [jsonl   |-> jsonl,
         texts   |-> texts,
         content |-> content,
         out     |-> IF ContainsFence(content) /\ Len(body) > 0
                       THEN ContentOf(<<body>>)
                       ELSE content]

----------------------------------------------------------------------------
(* The input files extractTranslationText is run on *)

KeyLine == FlatLine("text", FALSE, <<"a.b=x">>)

OtherKeyLine == FlatLine("text", FALSE, <<"c.d=y">>)

FencedText == <<FlatLine("text", FALSE, FenceOpen), OtherKeyLine,
                FlatLine("text", FALSE, FenceClose)>>

Block(type, text) == [type |-> type, text |-> text]

LinePool ==
    { EmptyLine,
      FlatLine("blank", TRUE, <<>>),
      KeyLine,
      FlatLine("text", TRUE, FenceOpen),
      FlatLine("text", FALSE, FenceClose),
      FlatLine("text", FALSE, <<"see", Ticks, "yaml">>),
      JsonLine(FALSE, TRUE, "assistant", TRUE, <<Block("text", <<KeyLine>>)>>),
      JsonLine(FALSE, TRUE, "assistant", TRUE,
               <<Block("text", <<OtherKeyLine>>), Block("tool_use", <<KeyLine>>),
                 Block("text", FencedText)>>),
      JsonLine(TRUE, TRUE, "assistant", TRUE, <<Block("text", <<EmptyLine>>)>>),
      JsonLine(FALSE, TRUE, "assistant", FALSE, <<>>),
      JsonLine(FALSE, TRUE, "user", TRUE, <<Block("text", <<KeyLine>>)>>),
      JsonLine(FALSE, FALSE, "", FALSE, <<>>) }

ExtractInputs == UNION {[1..n -> LinePool] : n \in 1..MaxLines}

InitExtract ==
    /\ en = DocFile(Map(<<>>))
    /\ tree = EmptyTree
    /\ file = OtherFile("missing")
    /\ pre = file
    /\ op = "none"
    /\ args = NoArgs
    /\ ret = NoRet
    /\ i18n = NoModule

\* extractTranslationText is applied to the bytes of one input file
Extract ==
    /\ op = "none"
    /\ \E lines \in ExtractInputs :
          /\ op' = "extract"
          /\ args' = [lines |-> lines]
          /\ ret' = extractTranslationText(lines)
          /\ UNCHANGED <<en, file, tree, pre, i18n>>

NextExtract == Extract

SpecExtract == InitExtract /\ [][NextExtract]_vars

----------------------------------------------------------------------------
(* report_remove.go: remove --stale *)

\* the keys of the locale map that the reference map does not have
StaleKeys(enKeys, localeKeys) == {k \in DOMAIN localeKeys : ~found(enKeys, k)}

\* removeStaleKeys(root) on a translations directory that holds en-us.yaml and
\* one locale file; order is the iteration order of the staleKeys map, outcome
\* what os.WriteFile does.  en-us.yaml is skipped by the loop.
removeStaleKeys(enFile, localeFile, order, outcome) ==
    LET enKeys == loadYAMLFlat(enFile)
        localeKeys == loadYAMLFlat(localeFile)
    IN  IF enKeys.err # "" THEN [err |-> enKeys.err, file |-> localeFile, removed |-> 0]
        ELSE IF localeKeys.err # ""
          THEN [err |-> localeKeys.err, file |-> localeFile, removed |-> 0]
        ELSE IF Len(order) = 0 THEN [err |-> "", file |-> localeFile, removed |-> 0]
        ELSE removeKeysFromFile(localeFile, order, outcome)

\* the iteration orders of the staleKeys map of a directory
StaleOrders(enFile, localeFile) ==
    Perms(StaleKeys(loadYAMLFlat(enFile).m, loadYAMLFlat(localeFile).m))

----------------------------------------------------------------------------
(* The directories remove --stale is run on *)

\* reference catalogs: nested keys, a top-level scalar, a file that does not parse
StaleEnFiles ==
    {DocFile(CatalogDoc(K, S1("x"))) : K \in SUBSET {Dotted(A, A), Dotted(A, B), Dotted(B, A)}}
      \cup {DocFile(CatalogDoc({B}, S1("x"))), OtherFile("invalid")}

\* a pair whose key name is written with a dot in it, as in "a.b": x
DottedName == KeyNode(Dotted(A, B), <<>>)

\* locale files: every small document of plain key names, two documents with a
\* dotted key name, and files that are empty, do not parse or cannot be read
StaleLocaleFiles ==
    {DocFile(r) : r \in MappingRoots}
      \cup {DocFile(Map(<<DottedName, Leaf("!!str", PlainValue)>>)),
            DocFile(Map(<<KeyNode(A, <<>>), Map(<<KeyNode(A, <<>>), Leaf("!!str", PlainValue)>>),
                          DottedName, Leaf("!!str", PlainValue)>>))}
      \cup {OtherFile(k) : k \in {"empty", "invalid", "unreadable"}}

InitStale ==
    /\ en \in StaleEnFiles
    /\ tree = EmptyTree
    /\ file \in StaleLocaleFiles
    /\ pre = file
    /\ op = "none"
    /\ args = NoArgs
    /\ ret = NoRet
    /\ i18n = NoModule

\* one run of remove --stale
RemoveStale ==
    /\ op = "none"
    /\ \E outcome \in WriteOutcomes :
         \E order \in StaleOrders(en, file) :
            LET r == removeStaleKeys(en, file, order, outcome)
            IN  /\ file' = r.file
                /\ pre' = file
                /\ op' = "stale"
                /\ args' = [en |-> en, order |-> order, outcome |-> outcome]
                /\ ret' = [removed |-> r.removed, err |-> r.err]
                /\ UNCHANGED <<en, tree, i18n>>

NextStale == RemoveStale

SpecStale == InitStale /\ [][NextStale]_vars

----------------------------------------------------------------------------
(* report_merge.go: parseMergeInput *)

\* strings.TrimSpace of a line of characters
RECURSIVE TrimRightSpaces(_)
TrimRightSpaces(s) ==
    IF Len(s) > 0 /\ s[Len(s)] = Space THEN TrimRightSpaces(SubSeq(s, 1, Len(s) - 1))
    ELSE s

Trimmed(s) == TrimRightSpaces(TrimLeftSpaces(s))

\* strings.Index(s, sub), counted from 0; -1 when sub is not in s
Index(s, sub) ==
    LET at == {i \in 0..(Len(s) - Len(sub)) : SubSeq(s, i + 1, i + Len(sub)) = sub}
    IN  IF at = {} THEN 0 - 1 ELSE CHOOSE i \in at : \A j \in at : i <= j

ReasonTag == <<"#", " ", "@", "r", "e", "a", "s", "o", "n">>

ContinuationTag == <<"#", " ", " ", " ">>

Separator == <<"-", "-", "-">>

\* the characters isValidDottedKey lets into a segment
KeyChars ==
    {"a", "b", "c", "d", "e", "f", "g", "h", "i", "j", "k", "l", "m", "n", "o", "p",
     "q", "r", "s", "t", "u", "v", "w", "x", "y", "z",
     "A", "B", "C", "D", "E", "F", "G", "H", "I", "J", "K", "L", "M", "N", "O", "P",
     "Q", "R", "S", "T", "U", "V", "W", "X", "Y", "Z",
     "0", "1", "2", "3", "4", "5", "6", "7", "8", "9", "_", "-"}

\* isValidDottedKey, the mutant that takes any text for a key
isValidDottedKey_Any(s) == TRUE

\* isValidDottedKey(s)
isValidDottedKey(s) ==
    LET parts == Split(s, Dot)
    IN  /\ Len(parts) >= 2
        /\ \A p \in 1..Len(parts) :
              /\ parts[p] # <<>>
              /\ \A c \in 1..Len(parts[p]) : parts[p][c] \in KeyChars

NoKey == [key |-> <<>>, value |-> <<>>]

\* report_merge.go:229-235: the form key: value, its value unquoted
ColonForm(trimmed) ==
    LET idx == Index(trimmed, <<":", Space>>)
    IN  IF idx > 0 /\ isValidDottedKey(SubSeq(trimmed, 1, idx))
          THEN [key |-> SubSeq(trimmed, 1, idx),
                value |-> stripYAMLQuotes(SubSeq(trimmed, idx + 3, Len(trimmed)))]
          ELSE NoKey

\* report_merge.go:236-244: the form key=value, its value as it stands
EqualsForm(trimmed) ==
    LET idx == Index(trimmed, <<"=">>)
    IN  IF idx > 0 /\ isValidDottedKey(SubSeq(trimmed, 1, idx))
          THEN [key |-> SubSeq(trimmed, 1, idx),
                value |-> SubSeq(trimmed, idx + 2, Len(trimmed))]
          ELSE NoKey

\* report_merge.go:227-244: the second form is tried when the first gave no key
KeyValue(trimmed) ==
    IF ColonForm(trimmed).key # <<>> THEN ColonForm(trimmed) ELSE EqualsForm(trimmed)

\* report_merge.go:256, the mutant that keeps the comment after an entry
AfterEntry_Keep(pending) == pending

\* report_merge.go:256: pendingComment.Reset() after an entry is appended
AfterEntry(pending) == <<>>

\* report_merge.go:223-225, the mutant that drops the pending comment
AfterOtherComment_Reset(pending) == <<>>

\* report_merge.go:223-225: any other comment line is skipped
AfterOtherComment(pending) == pending

\* the body of the scanner loop: st is [entries, pending], pending the lines
\* written to pendingComment since its last Reset
ParseStep(st, line) ==
    LET trimmed == Trimmed(line)
    IN  IF trimmed = <<>> \/ trimmed = Separator
          THEN [st EXCEPT !.pending = <<>>]
        ELSE IF IsPrefix(ReasonTag, trimmed)
          THEN [st EXCEPT !.pending = Append(@, trimmed)]
        ELSE IF IsPrefix(ContinuationTag, trimmed) /\ Len(st.pending) > 0
          THEN [st EXCEPT !.pending = Append(@, trimmed)]
        ELSE IF IsPrefix(<<"#">>, trimmed)
          THEN [st EXCEPT !.pending = AfterOtherComment(@)]
        ELSE LET kv == KeyValue(trimmed)
             IN  IF kv.key = <<>> THEN [st EXCEPT !.pending = <<>>]
                 ELSE [entries |-> Append(st.entries,
                                          Entry(kv.key, kv.value, st.pending)),
                       pending |-> AfterEntry(st.pending)]

RECURSIVE ParseFrom(_, _, _)
ParseFrom(st, lines, i) ==
    IF i > Len(lines) THEN st ELSE ParseFrom(ParseStep(st, lines[i]), lines, i + 1)

\* parseMergeInput(r) on the lines the scanner yields: the entries, each with
\* its comment as the sequence of its lines
parseMergeInput(lines) == ParseFrom([entries |-> <<>>, pending |-> <<>>], lines, 1).entries

----------------------------------------------------------------------------
(* The input lines parseMergeInput is run on *)

\*   ''           an empty line
\*   '---'        a bare document separator
\*   '# @reason r' a tagged comment
\*   '# @reason s' another tagged comment
\*   '#   t'      a continuation line
\*   '# n'        a comment that is neither
\*   ' a.b=v '    key=value with white space around
\*   "a.b: 'w'"   key: value, quoted
\*   'c.d: v=w'   both separators, the colon first
\*   'a.b=c: d'   both separators, the colon after a candidate that is no key
\*   'b=v'        one segment
\*   'a..b: v'    an empty segment
\*   'a-1._x=v'   digits, hyphen and underscore
\*   'x y'        neither form
MergeLinePool ==
    { <<>>,
      <<"-", "-", "-">>,
      <<"#", " ", "@", "r", "e", "a", "s", "o", "n", " ", "r">>,
      <<"#", " ", "@", "r", "e", "a", "s", "o", "n", " ", "s">>,
      <<"#", " ", " ", " ", "t">>,
      <<"#", " ", "n">>,
      <<" ", "a", ".", "b", "=", "v", " ">>,
      <<"a", ".", "b", ":", " ", "'", "w", "'">>,
      <<"c", ".", "d", ":", " ", "v", "=", "w">>,
      <<"a", ".", "b", "=", "c", ":", " ", "d">>,
      <<"b", "=", "v">>,
      <<"a", ".", ".", "b", ":", " ", "v">>,
      <<"a", "-", "1", ".", "_", "x", "=", "v">>,
      <<"x", " ", "y">> }

ParseInputs == UNION {[1..n -> MergeLinePool] : n \in 0..MaxParseLines}

InitParse ==
    /\ en = DocFile(Map(<<>>))
    /\ tree = EmptyTree
    /\ file = OtherFile("missing")
    /\ pre = file
    /\ op = "none"
    /\ args = NoArgs
    /\ ret = NoRet
    /\ i18n = NoModule

\* parseMergeInput reads one input
Parse ==
    /\ op = "none"
    /\ \E lines \in ParseInputs :
          /\ op' = "parse"
          /\ args' = [lines |-> lines]
          /\ ret' = [entries |-> parseMergeInput(lines)]
          /\ UNCHANGED <<en, file, tree, pre, i18n>>

NextParse == Parse

SpecParse == InitParse /\ [][NextParse]_vars

----------------------------------------------------------------------------
(* repo.go: findKeyReferences with its loops in iteration order *)

\* refs[key] = append(refs[key], ref), the mutant that starts the list anew
AddRef_Overwrite(refs, key, ref) ==
    [k \in DOMAIN refs \cup {key} |-> IF k = key THEN <<ref>> ELSE refs[k]]

\* refs[key] = append(refs[key], ref)
AddRef(refs, key, ref) ==
    [k \in DOMAIN refs \cup {key} |->
        IF k # key THEN refs[k]
        ELSE IF key \in DOMAIN refs THEN Append(refs[key], ref) ELSE <<ref>>]

RECURSIVE ResolveKeys(_, _, _, _)
\* repo.go:240-244: the loop over the keys for one pattern, from key i on
ResolveKeys(refs, d, keyOrder, i) ==
    IF i > Len(keyOrder) THEN refs
    ELSE ResolveKeys(IF MatchString(d.Regex, keyOrder[i])
                       THEN AddRef(refs, keyOrder[i], d.Template)
                       ELSE refs,
                     d, keyOrder, i + 1)

RECURSIVE ResolveDynamics(_, _, _, _)
\* repo.go:239-245: the loop over the patterns, from pattern j on
ResolveDynamics(refs, dynamics, keyOrder, j) ==
    IF j > Len(dynamics) THEN refs
    ELSE ResolveDynamics(ResolveKeys(refs, dynamics[j], keyOrder, 1),
                         dynamics, keyOrder, j + 1)

\* the literal references of a scan as the map key -> list of references
LiteralRefs(t, keys) == [k \in scanFiles(t, keys).refs |-> <<"literal">>]

\* findKeyReferences(root, keys) as the map it returns: dynamics is the list of
\* patterns in the order the scan found them, keyOrder the iteration order of
\* the key map
findKeyReferencesIn(t, dynamics, keyOrder) ==
    ResolveDynamics(LiteralRefs(t, {keyOrder[i] : i \in 1..Len(keyOrder)}),
                    dynamics, keyOrder, 1)

\* catalogs of at most MaxResolveKeys keys
ResolveEnFiles ==
    {DocFile(CatalogDoc({EnKeyPool[i] : i \in 1..n}, S1("x"))) :
        n \in 0..Min(MaxResolveKeys, Len(EnKeyPool))}

InitResolve ==
    /\ en \in ResolveEnFiles
    /\ file = OtherFile("missing")
    /\ tree \in Trees
    /\ pre = file
    /\ op = "none"
    /\ args = NoArgs
    /\ ret = NoRet
    /\ i18n = NoModule

\* one run of findKeyReferences on the keys of en-us.yaml
Resolve ==
    /\ op = "none"
    /\ \E dynamics \in Perms(extractDynamicPatterns(tree.templates)),
          keyOrder \in Perms(DOMAIN loadYAMLFlat(en).m) :
          /\ op' = "resolve"
          /\ args' = [dynamics |-> dynamics, keyOrder |-> keyOrder]
          /\ ret' = [refs |-> findKeyReferencesIn(tree, dynamics, keyOrder)]
          /\ UNCHANGED <<en, file, tree, pre, i18n>>

NextResolve == Resolve

SpecResolve == InitResolve /\ [][NextResolve]_vars

----------------------------------------------------------------------------
(* The workflow translate, merge, translate on one locale *)

RECURSIVE Itoa(_)
\* %d of a number that is not negative
Itoa(n) ==
    LET digit(d) == <<"0", "1", "2", "3", "4", "5", "6", "7", "8", "9">>[d + 1]
    IN  IF n < 10 THEN <<digit(n)>> ELSE Itoa(n \div 10) \o <<digit(n % 10)>>

RECURSIVE PairLines(_, _)
\* report_translate.go:90-92: fmt.Printf("%s=%s\n", p.Key, p.Value) for each pair
PairLines(pairs, i) ==
    IF i > Len(pairs) THEN <<>>
    ELSE pairs[i].Key \o <<"=">> \o pairs[i].Value \o <<Newline>> \o PairLines(pairs, i + 1)

\* report_translate.go:80-92: the text printed for the locale de without
\* --batches
translateText(pairs) ==
    IF Len(pairs) = 0
      THEN <<"N", "o", " ", "k", "e", "y", "s", " ", "m", "i", "s", "s", "i", "n", "g", " ", "f", "r", "o", "m", " ", "d", "e", ".">> \o <<Newline>>
      ELSE <<"F", "o", "u", "n", "d", " ">> \o Itoa(Len(pairs))
             \o <<" ", "k", "e", "y", "s", " ", "m", "i", "s", "s", "i", "n", "g", " ", "f", "r", "o", "m", " ", "d", "e", ":">> \o <<Newline, Newline>>
             \o PairLines(pairs, 1)

\* the lines bufio.Scanner yields for a text: the text split at the newlines,
\* without the empty rest after a final newline
ScanLines(text) ==
    LET lines == Split(text, Newline)
    IN  IF lines[Len(lines)] = <<>> THEN SubSeq(lines, 1, Len(lines) - 1) ELSE lines

\* report_merge.go:56-74: the text of translate, saved to a file and named on
\* the command line of merge; extractTranslationText returns such a text as it
\* is (its first line is the header, and it holds no fence)
workflowInput(text) == [readable |-> TRUE, entries |-> parseMergeInput(ScanLines(text))]

\* reference catalogs: nested keys and the top-level scalar c, one-line values,
\* and a catalog with a two-line value
WorkflowEnFiles ==
    {DocFile(CatalogDoc(K, S1("x"))) :
        K \in SUBSET {Dotted(A, A), Dotted(A, B), Dotted(B, A), C}}
      \cup {DocFile(CatalogDoc({Dotted(A, B)}, TwoLines))}

InitWorkflow ==
    /\ en \in WorkflowEnFiles
    /\ tree = EmptyTree
    /\ file \in LocaleFiles
    /\ pre = file
    /\ op = "none"
    /\ args = NoArgs
    /\ ret = NoRet
    /\ i18n = NoModule

\* i18n-report translate --locale=de > out.txt
WorkflowTranslate ==
    /\ op = "none"
    /\ reportTranslate(en, file, 0, 0).err = ""
    /\ op' = "wf-translate"
    /\ args' = NoArgs
    /\ ret' = [text |-> translateText(reportTranslate(en, file, 0, 0).out)]
    /\ UNCHANGED <<en, file, tree, pre, i18n>>

\* i18n-report merge --locale=de out.txt
WorkflowMerge ==
    /\ op = "wf-translate"
    /\ \E outcome \in WriteOutcomes :
          LET r == reportMerge(file, workflowInput(ret.text), outcome)
          IN  /\ file' = r.file
              /\ pre' = file
              /\ op' = "wf-merge"
              /\ args' = [outcome |-> outcome]
              /\ ret' = [text |-> ret.text, err |-> r.err, added |-> r.added]
              /\ UNCHANGED <<en, tree, i18n>>

\* i18n-report translate --locale=de, once more
WorkflowTranslateAgain ==
    /\ op = "wf-merge"
    /\ op' = "wf-again"
    /\ ret' = [text |-> ret.text, err |-> ret.err, added |-> ret.added,
               again |-> reportTranslate(en, file, 0, 0)]
    /\ UNCHANGED <<en, file, tree, pre, args, i18n>>

NextWorkflow == WorkflowTranslate \/ WorkflowMerge \/ WorkflowTranslateAgain

SpecWorkflow == InitWorkflow /\ [][NextWorkflow]_vars

----------------------------------------------------------------------------
(* main.go: one invocation of i18n-report runs one subcommand *)

Init == InitRemove \/ InitMerge \/ InitTranslate \/ InitReport \/ InitWrite \/ InitMatch \/ InitStrip
          \/ InitExtract \/ InitStale \/ InitParse \/ InitResolve

Next == NextRemove \/ NextMerge \/ NextTranslate \/ NextReport \/ NextWrite \/ NextMatch \/ NextStrip
          \/ NextExtract \/ NextStale \/ NextParse \/ NextResolve

Spec == Init /\ [][Next]_vars

----------------------------------------------------------------------------
(* main/i18n.ts: the i18n module of the main process *)

\* the locales bundled with the application
Locales == {"en-us", "de", "fr"}

\* settings.application.locale as a settings object carries it
RawLocales == Locales \cup {"", "none"}

\* (!raw || raw === 'none') ? 'en-us' : raw
LocaleOf(raw) == IF raw = "" \/ raw = "none" THEN "en-us" ELSE raw

\* what the dynamic import of a locale file can do
ImportOutcomes == {"resolved", "rejected"}

\* loadLocale after its await: translations[locale] is set when the import
\* resolved, an error is logged when it was rejected
Loaded(translations, locale, outcome) ==
    IF outcome = "resolved" THEN translations \cup {locale} ELSE translations

\* one invocation of a registered callback, with what it finds: the current
\* locale, whether its translations are there, and whether an import of it is
\* still under way
Call(m, translations, loading) ==
    [locale  |-> m.currentLocale,
     loaded  |-> m.currentLocale \in translations,
     pending |-> \E j \in 1..Len(loading) : loading[j] = m.currentLocale]

\* for (const callback of localeChangeCallbacks) callback()
RunCallbacks(m, translations, loading) ==
    m.called \o [n \in 1..m.callbacks |-> Call(m, translations, loading)]

\* the module as it is imported: en-us is bundled, nothing is registered;
\* loading holds the locale each suspended settings-update handler waits for
InitMain ==
    /\ i18n = [phase |-> "fetch", currentLocale |-> "en-us", translations |-> {"en-us"},
               loading |-> <<>>, callbacks |-> 0, called |-> <<>>, events |-> 0]
    /\ en = DocFile(Map(<<>>))
    /\ tree = EmptyTree
    /\ file = OtherFile("missing")
    /\ pre = file
    /\ op = "none"
    /\ args = NoArgs
    /\ ret = NoRet

\* onLocaleChange(callback)
onLocaleChange ==
    /\ i18n.callbacks < MaxCallbacks
    /\ i18n' = [i18n EXCEPT !.callbacks = @ + 1]
    /\ UNCHANGED <<en, file, tree, pre, op, args, ret>>

\* initMainI18n up to its first suspension: settings-fetch throws, or gives a
\* locale; the listener is registered when the function has run to its end
initMainI18n ==
    /\ i18n.phase = "fetch"
    /\ \/ i18n' = [i18n EXCEPT !.phase = "listening"]
       \/ \E raw \in RawLocales :
             i18n' = IF LocaleOf(raw) # i18n.currentLocale
                       THEN [i18n EXCEPT !.currentLocale = LocaleOf(raw), !.phase = "load"]
                       ELSE [i18n EXCEPT !.phase = "listening"]
    /\ UNCHANGED <<en, file, tree, pre, op, args, ret>>

\* the import started by initMainI18n settles and the listener is registered
initLoaded ==
    /\ i18n.phase = "load"
    /\ \E outcome \in ImportOutcomes :
          i18n' = [i18n EXCEPT
                     !.translations = Loaded(@, i18n.currentLocale, outcome),
                     !.phase = "listening"]
    /\ UNCHANGED <<en, file, tree, pre, op, args, ret>>

\* a settings-update event reaches the listener, which runs to its await; when
\* the locale is already loaded loadLocale returns at once and the callbacks
\* run in the microtask that follows, before any other event
SettingsUpdate ==
    /\ i18n.phase = "listening"
    /\ i18n.events < MaxEvents
    /\ \E raw \in RawLocales :
          LET locale == LocaleOf(raw)
              m == [i18n EXCEPT !.events = @ + 1, !.currentLocale = locale]
          IN  i18n' = IF locale = i18n.currentLocale
                        THEN [i18n EXCEPT !.events = @ + 1]
                      ELSE IF locale \in i18n.translations
                        THEN [m EXCEPT !.called = RunCallbacks(m, m.translations, m.loading)]
                      ELSE [m EXCEPT !.loading = Append(@, locale)]
    /\ UNCHANGED <<en, file, tree, pre, op, args, ret>>

\* the import a suspended handler waits for settles; the handler goes on and
\* runs the callbacks
LoadDone ==
    /\ \E i \in 1..Len(i18n.loading), outcome \in ImportOutcomes :
          LET translations == Loaded(i18n.translations, i18n.loading[i], outcome)
              loading == SubSeq(i18n.loading, 1, i - 1)
                           \o SubSeq(i18n.loading, i + 1, Len(i18n.loading))
          IN  i18n' = [i18n EXCEPT
                         !.translations = translations,
                         !.loading = loading,
                         !.called = RunCallbacks(i18n, translations, loading)]
    /\ UNCHANGED <<en, file, tree, pre, op, args, ret>>

NextMain == onLocaleChange \/ initMainI18n \/ initLoaded \/ SettingsUpdate \/ LoadDone

SpecMain == InitMain /\ [][NextMain]_vars

----------------------------------------------------------------------------
(* Properties of the removal *)

\* the last command was a removal that returned without error
RemoveDone == op = "remove" /\ ret.err = ""

\* the key k names a pair of the document the removal started from
Existed(k) == HasPath(pre.root, Split(k, Dot))

\* two nodes agree in everything but their children
SameNode(n, m) ==
    /\ n.Kind = m.Kind
    /\ n.Tag = m.Tag
    /\ n.Value = m.Value

\* the paths a removal of the existing path p takes out of the path set P: p
\* with all below it, and every ancestor of p with nothing but the chain to p
GoneWith(P, p) ==
    {q \in P : IsPrefix(p, q)}
      \cup {a \in P : /\ IsPrefix(a, p)
                      /\ \A q \in P : IsPrefix(a, q) => (IsPrefix(q, p) \/ IsPrefix(p, q))}

\* C1: removing one existing key deletes its pair and every ancestor mapping
\* that is left empty, up to but never including the root mapping; ancestors
\* that keep another child and every other subtree stay as they were.
C1_PruneChain ==
    (RemoveDone /\ Cardinality(args.keys) = 1) =>
        \A k \in args.keys :
            Existed(k) =>
                LET p == Split(k, Dot)
                    P == AllPaths(pre.root)
                    kept == P \ GoneWith(P, p)
                IN  /\ file.kind = "doc"
                    /\ file.root.Kind = MappingNode
                    /\ AllPaths(file.root) = kept
                    /\ \A q \in kept : SameNode(NodeAt(file.root, q), NodeAt(pre.root, q))

\* C1 witness: the only leaf of a chain of two ancestor mappings was removed,
\* both ancestors went with it, and the root mapping is still there, empty
C1_Witness ==
    /\ RemoveDone
    /\ args.keys = {Join(<<S1("a"), S1("b"), S1("a")>>, Dot)}
    /\ AllPaths(pre.root) = {<<S1("a")>>, <<S1("a"), S1("b")>>, <<S1("a"), S1("b"), S1("a")>>}
    /\ NodeAt(pre.root, <<S1("a"), S1("b"), S1("a")>>).Kind = ScalarNode
    /\ file.kind = "doc"
    /\ file.root = Map(<<>>)

\* C2: when no key of the key set is in the file, removeKeysFromFile returns 0
\* and the file is what it was, content and modification time.
C2_NoChangeNoWrite ==
    (op = "remove" /\ \A k \in args.keys : ~Existed(k)) =>
        /\ ret.removed = 0
        /\ file = pre

\* C2 witness: keys were asked for on a document that has pairs, none of them
\* was there, and the file is untouched
C2_Witness ==
    /\ RemoveDone
    /\ args.keys # {}
    /\ pre.kind = "doc"
    /\ AllPaths(pre.root) # {}
    /\ \A k \in args.keys : ~Existed(k)
    /\ ret.removed = 0
    /\ file = pre

\* no key of K is a dotted prefix of another key of K
NoKeyPrefixes(K) ==
    \A k1, k2 \in K : k1 # k2 => ~IsPrefix(Split(k1, Dot), Split(k2, Dot))

\* C3 as stated: the returned count is the number of keys of the key set whose
\* path was in the document when the call began.
C3_CountIsExisting ==
    RemoveDone => ret.removed = Cardinality({k \in args.keys : Existed(k)})

\* C3: when no key of the key set is a dotted prefix of another, the returned
\* count of a call that succeeds is the number of keys of the key set whose path
\* was in the document when the call began.
C3_CountIsExistingNoPrefix ==
    (RemoveDone /\ NoKeyPrefixes(args.keys)) =>
        ret.removed = Cardinality({k \in args.keys : Existed(k)})

\* C3 witness: two keys, one in the document and one not, and the count is 1
C3_Witness ==
    /\ RemoveDone
    /\ Cardinality(args.keys) = 2
    /\ NoKeyPrefixes(args.keys)
    /\ Cardinality({k \in args.keys : Existed(k)}) = 1
    /\ ret.removed = 1
    /\ file # pre


----------------------------------------------------------------------------
(* Properties of the merge *)

\* the last command was a merge that returned without error
MergeDone == op = "merge" /\ ret.err = ""

\* the keys of the incoming entries of the last merge
IncomingKeys == {args.entries[i].key : i \in 1..Len(args.entries)}

\* the last incoming entry with key k
LastIncoming(k) ==
    args.entries[CHOOSE i \in 1..Len(args.entries) :
                    /\ args.entries[i].key = k
                    /\ \A j \in 1..Len(args.entries) : args.entries[j].key = k => j <= i]

\* C4: after a merge the locale file holds, for every key of the incoming
\* entries, the value and the comment of the last incoming entry with that
\* key, whatever the file had for the key before.
C4_IncomingWins ==
    MergeDone =>
        LET now == loadYAMLWithComments(file)
        IN  /\ now.err = ""
            /\ \A k \in IncomingKeys :
                  /\ k \in DOMAIN now.m
                  /\ now.m[k].value = LastIncoming(k).value
                  /\ now.m[k].comment = LastIncoming(k).comment

\* C4 witness: a.a was in the file with a comment, the input gave a.a twice, and
\* the file now has the second value and no comment
C4_Witness ==
    /\ MergeDone
    /\ Dotted(A, A) \in DOMAIN loadYAMLWithComments(pre).m
    /\ loadYAMLWithComments(pre).m[Dotted(A, A)].comment = ReasonOld
    /\ args.entries = <<Entry(Dotted(A, A), S1("v"), ReasonNew),
                        Entry(Dotted(A, A), S1("w"), <<>>)>>
    /\ loadYAMLWithComments(file).m[Dotted(A, A)] = Entry(Dotted(A, A), S1("w"), <<>>)

\* C5 as stated: every key of the locale file that is not among the incoming
\* entries is still in the file after the merge and reads back (loadYAMLFlat)
\* with the value string it had before.
C5_ExistingPreserved ==
    MergeDone =>
        LET before == loadYAMLFlat(pre)
            after == loadYAMLFlat(file)
        IN  before.err = "" =>
                \A k \in DOMAIN before.m \ IncomingKeys :
                    /\ after.err = ""
                    /\ k \in DOMAIN after.m
                    /\ after.m[k] = before.m[k]

\* C6 as stated: a key of the existing file that carries a comment and is not
\* among the incoming entries carries the same comment after the merge, the
\* incoming entries have their new comment, and uncommented keys stay
\* uncommented.
C6_CommentsKept ==
    MergeDone =>
        LET before == loadYAMLWithComments(pre)
            after == loadYAMLWithComments(file)
        IN  /\ \A k \in DOMAIN before.m \ IncomingKeys :
                  k \in DOMAIN after.m => after.m[k].comment = before.m[k].comment
            /\ \A k \in IncomingKeys :
                  k \in DOMAIN after.m /\ after.m[k].comment = LastIncoming(k).comment

\* C7: a merge whose input cannot be read or yields no entry returns an error
\* and leaves the locale file as it was.
C7_NoEntriesNoWrite ==
    (op = "merge" /\ (~args.readable \/ Len(args.entries) = 0)) =>
        /\ ret.err # ""
        /\ file = pre

\* C7 witness: the input was read, it held no entry, the merge failed and the
\* existing locale document is untouched
C7_Witness ==
    /\ op = "merge"
    /\ args.readable
    /\ Len(args.entries) = 0
    /\ args.outcome = "ok"
    /\ pre.kind = "doc"
    /\ AllPaths(pre.root) # {}
    /\ ret.err # ""
    /\ file = pre

\* C8 as stated: a locale file that exists but cannot be read or parsed makes
\* the command fail, and no catalog file is rewritten.
C8_BadCatalogIsFatal ==
    (op = "merge" /\ pre.kind \in {"unreadable", "invalid"}) =>
        /\ ret.err # ""
        /\ file = pre

----------------------------------------------------------------------------
(* Properties of translate *)

TranslateDone == op = "translate"

\* the full list of missing pairs of the catalogs on disk
FullList == MissingPairs(loadYAMLFlat(en).m, loadYAMLFlat(file).m)

\* the least s with s * n >= t
Ceil(t, n) == CHOOSE s \in 0..t : s * n >= t /\ (s = 0 \/ (s - 1) * n < t)

\* a run asked for a batch in range, with both catalogs loaded
SlicedRun ==
    /\ TranslateDone
    /\ loadYAMLFlat(en).err = "" /\ loadYAMLFlat(file).err = ""
    /\ args.batches >= 1
    /\ 1 <= args.batch /\ args.batch <= args.batches

\* C9: with size = ceil(total / batches), the run of batch b prints the items
\* of the full list with 0-based indices from min((b-1)*size, total) up to but
\* not including min(b*size, total), with 0 <= start <= end <= total, and the
\* runs of batches 1..batches print, one after the other, exactly the full list.
C9_BatchesPartition ==
    SlicedRun =>
        LET total == Len(FullList)
            size == Ceil(total, args.batches)
        IN  /\ ret.err = ""
            /\ ret.start = Min((args.batch - 1) * size, total)
            /\ ret.end = Min(args.batch * size, total)
            /\ 0 <= ret.start /\ ret.start <= ret.end /\ ret.end <= total
            /\ ret.out = [i \in 1..(ret.end - ret.start) |-> FullList[ret.start + i]]
            /\ (args.first = 1 /\ args.batch = args.batches) => ret.acc = FullList

\* a run with --batches >= 1 and --batch outside 1..batches
OutsideRun ==
    /\ TranslateDone
    /\ args.batches >= 1
    /\ (args.batch < 1 \/ args.batch > args.batches)

\* C10: a run with --batches >= 1 and --batch outside 1..batches returns an
\* error and prints no key.
C10_OutOfRangeIsError == OutsideRun => ret.err # "" /\ ret.out = <<>>

\* batch 4 of 3 was asked for while keys are missing
C10_Witness ==
    /\ OutsideRun
    /\ args.batch = args.batches + 1
    /\ loadYAMLFlat(file).err = ""
    /\ Len(FullList) > 0
    /\ ret.err # "" /\ ret.out = <<>>

----------------------------------------------------------------------------
(* Properties of the reports *)

\* the catalogs on disk, as flat maps
EnKeys == loadYAMLFlat(en).m
LocaleKeys == loadYAMLFlat(file).m

\* both catalogs load
CatalogsLoad == loadYAMLFlat(en).err = "" /\ loadYAMLFlat(file).err = ""

\* a key of the reference catalog that has a source reference or is accepted
\* by the matcher of a dynamic pattern
Used(k) == k \in findKeyReferences(tree, DOMAIN EnKeys)

\* a report of the given name ran to its end
ReportDone(name) == op = name /\ ret.err = ""

\* the set of elements of a sequence
Range(q) == {q[i] : i \in 1..Len(q)}

\* C11: translate lists exactly the keys of the reference catalog that the
\* locale lacks and that are used, each with the value of the reference
\* catalog; a missing key that is not used is never listed.
C11_TranslateListsUsedMissing ==
    ReportDone("translate-all") =>
        /\ {p.Key : p \in Range(ret.out)}
              = {k \in DOMAIN EnKeys : k \notin DOMAIN LocaleKeys /\ Used(k)}
        /\ \A p \in Range(ret.out) : p.Value = EnKeys[p.Key]

\* q lists the keys of the set K, each once, in ascending byte order
ListsAscending(q, K) ==
    /\ Range(q) = K
    /\ \A i, j \in 1..Len(q) : i < j => StrLess(q[i], q[j])

\* C12: missing lists exactly the keys of the reference catalog absent from the
\* target and stale exactly the keys of the target absent from the reference,
\* each in ascending key order; so stale(reference, target) is
\* missing(target, reference), and no key is both missing and stale.
C12_MissingStaleAreDifferences ==
    /\ ReportDone("missing") =>
          ListsAscending(ret.out, DOMAIN EnKeys \ DOMAIN LocaleKeys)
    /\ ReportDone("stale") =>
          /\ ListsAscending(ret.out, DOMAIN LocaleKeys \ DOMAIN EnKeys)
          /\ ret.out = reportMissing(file, en).out
          /\ Range(ret.out) \cap Range(reportMissing(en, file).out) = {}

\* stale has listed a key while two or more keys are missing
C12_Witness ==
    /\ ReportDone("stale")
    /\ Len(ret.out) >= 1
    /\ Len(reportMissing(en, file).out) >= 2
    /\ DOMAIN EnKeys \cap DOMAIN LocaleKeys # {}

\* the scan found a literal reference to the catalog key k
HasReference(k) == k \in tree.direct \/ k \in tree.indirect

\* the matcher compiled from some template literal of the tree accepts k
Covered(k) == \E t \in tree.templates : MatchString(templateToKeyRegex(t), k)

AgreesWith(line, list) ==
    /\ line.count = Len(list)
    /\ line.status = (IF Len(list) # 0 THEN "FAIL" ELSE "OK")

\* C14: check succeeds (no error, 'All checks passed.') if and only if the
\* unused, stale and translate reports on the same inputs are all empty; the
\* count printed for each category is the number of keys the report of that
\* category lists, and the category is marked FAIL exactly when it is nonzero.
C14_CheckAgreesWithReports ==
    (op = "check" /\ CatalogsLoad) =>
        LET unused == reportUnused(en, tree).out
            stale == reportStale(en, file).out
            translate == reportTranslate(en, file, 0, 0).out
        IN  /\ ret.passed <=> (unused = <<>> /\ stale = <<>> /\ translate = <<>>)
            /\ ret.err = "" <=> ret.passed
            /\ AgreesWith(ret.lines[1], unused)
            /\ AgreesWith(ret.lines[2], stale)
            /\ AgreesWith(ret.lines[3], translate)

\* check failed on unused and on two missing keys while no key was stale
C14_Witness ==
    /\ op = "check" /\ CatalogsLoad
    /\ ret.err # "" /\ ~ret.passed
    /\ ret.lines[1].status = "FAIL"
    /\ ret.lines[2].status = "OK" /\ DOMAIN LocaleKeys # {}
    /\ ret.lines[3].status = "FAIL" /\ ret.lines[3].count = 2

----------------------------------------------------------------------------
(* Properties of writeNestedYAML *)

WriteDone == op = "write"

\* the entries written, by key
Written == EntryMap(args.entries)

\* C15: for entries with unique dotted keys and scalar values, parsing the
\* document writeNestedYAML wrote and flattening it gives the same key set and,
\* for every key, the same value string.
C15_FlattenRoundTrip ==
    WriteDone =>
        LET back == loadYAMLFlat(file)
        IN  /\ back.err = ""
            /\ DOMAIN back.m = DOMAIN Written
            /\ \A k \in DOMAIN Written : back.m[k] = Written[k].value

\* the keys written, in ascending order, and where their leaf lines are
WrittenKeys == SortKeys(DOMAIN Written)
LeafAt == SelectSeq([i \in 1..Len(ret.lines) |-> i], LAMBDA i : ret.lines[i].kind = "leaf")

\* the lines right above line i are exactly the comment block c at indent d
BlockAbove(i, c, d) ==
    /\ i - Len(c) >= 1
    /\ \A m \in 1..Len(c) :
          LET ln == ret.lines[i - Len(c) - 1 + m]
          IN  ln.kind = "comment" /\ ln.text = c[m] /\ ln.indent = d
    /\ (i - Len(c) - 1 >= 1 => ret.lines[i - Len(c) - 1].kind # "comment")

\* C16: a leaf with a single-line or multi-line comment keeps it: the document
\* written has the identical comment lines, in order, at the indent of the leaf
\* and directly above it, and loading the document again gives every key the
\* comment it was written with, so no other key receives it.
C16_CommentRoundTrip ==
    WriteDone =>
        LET back == loadYAMLWithComments(file)
        IN  /\ back.err = ""
            /\ Len(LeafAt) = Len(WrittenKeys)
            /\ \A j \in 1..Len(WrittenKeys) :
                  LET e == Written[WrittenKeys[j]]
                      i == LeafAt[j]
                  IN  /\ BlockAbove(i, e.comment, ret.lines[i].indent)
                      /\ e.key \in DOMAIN back.m
                      /\ back.m[e.key].comment = e.comment

\* a leaf with a two-line comment, one with a one-line comment and one without
\* were written and loaded again
C16_Witness ==
    /\ WriteDone
    /\ \E i, j, k \in 1..Len(args.entries) :
          /\ args.entries[i].comment = ReasonLong
          /\ args.entries[j].comment = ReasonNew
          /\ args.entries[k].comment = <<>>
    /\ \E k \in DOMAIN Written :
          loadYAMLWithComments(file).m[k].comment = ReasonLong

\* the lines written for the j-th key: those after the leaf of the key before
Chunk(j) ==
    SubSeq(ret.lines, IF j = 1 THEN 1 ELSE LeafAt[j - 1] + 1, LeafAt[j])

\* the number of leading segments two parent paths have in common
Shared(p, q) ==
    LET m == Min(Len(p), Len(q))
    IN  CHOOSE h \in 0..m :
           /\ \A i \in 1..h : p[i] = q[i]
           /\ h < m => p[h + 1] # q[h + 1]

\* the parent path of a key
ParentPath(key) == LET parts == Split(key, Dot) IN SubSeq(parts, 1, Len(parts) - 1)

\* the full dotted key of the leaf on line i: the nearest parent line above it
\* at each smaller indent, then the leaf
FullKey(i) ==
    LET d == ret.lines[i].indent
        above(h) == CHOOSE n \in 1..(i - 1) :
                       /\ ret.lines[n].kind = "parent" /\ ret.lines[n].indent = h
                       /\ \A o \in (n + 1)..(i - 1) :
                             ~(ret.lines[o].kind = "parent" /\ ret.lines[o].indent = h)
    IN  Join([h \in 1..d |-> ret.lines[above(h - 1)].key] \o <<ret.lines[i].key>>, Dot)

\* C17: the leaves are written in ascending byte order of their full dotted
\* keys whatever the order of the entries; exactly one blank line stands before
\* every entry whose top-level segment differs from that of the entry before,
\* none before the first entry and none elsewhere; the parent segments shared
\* with the parent path of the entry before are not written again.
C17_SortedGroupedOutput ==
    WriteDone =>
        /\ Len(LeafAt) = Len(WrittenKeys)
        /\ \A j \in 1..Len(LeafAt) : FullKey(LeafAt[j]) = WrittenKeys[j]
        /\ \A j, k \in 1..Len(LeafAt) :
              j < k => StrLess(FullKey(LeafAt[j]), FullKey(LeafAt[k]))
        /\ \A j \in 1..Len(WrittenKeys) :
              LET parts == Split(WrittenKeys[j], Dot)
                  prev == IF j = 1 THEN <<>> ELSE Split(WrittenKeys[j - 1], Dot)
                  newTop == j > 1 /\ parts[1] # prev[1]
                  shared == IF j = 1 THEN 0
                            ELSE Shared(ParentPath(WrittenKeys[j]),
                                        ParentPath(WrittenKeys[j - 1]))
                  blanks == SelectSeq(Chunk(j), LAMBDA ln : ln.kind = "blank")
                  parents == SelectSeq(Chunk(j), LAMBDA ln : ln.kind = "parent")
              IN  /\ Len(blanks) = (IF newTop THEN 1 ELSE 0)
                  /\ newTop => Chunk(j)[1].kind = "blank"
                  /\ [n \in 1..Len(parents) |-> parents[n].key]
                        = SubSeq(parts, shared + 1, Len(parts) - 1)
                  /\ \A n \in 1..Len(parents) : parents[n].indent = shared + n - 1

\* three entries given out of order: two share the parent a, the third opens
\* the group c after a blank line
C17_Witness ==
    /\ WriteDone
    /\ Len(args.entries) = 3
    /\ args.entries[1].key = Dotted(C, A)
    /\ args.entries[2].key = Dotted(A, B)
    /\ args.entries[3].key = Dotted(A, A)
    /\ Len(SelectSeq(ret.lines, LAMBDA ln : ln.kind = "blank")) = 1
    /\ Len(SelectSeq(ret.lines, LAMBDA ln : ln.kind = "parent")) = 2

----------------------------------------------------------------------------
(* Properties of templateToKeyRegex *)

\* a character of the class [A-Za-z0-9_-]
SegmentChar(c) ==
    c \in {"a", "b", "c", "i", "l", "n", "v", "w", "x", "y"} \cup {"I"}
            \cup {"0", "1", "8"} \cup {"_", "-"}

\* key is the items of shape in order, every interpolation replaced by one
\* non-empty run of segment characters: cut[i] is where the piece of item i ends
InstanceOf(key, shape) ==
    LET n == Len(shape)
    IN  \E cut \in [0..n -> 0..Len(key)] :
           /\ cut[0] = 0 /\ cut[n] = Len(key)
           /\ \A i \in 1..n :
                 /\ cut[i - 1] <= cut[i]
                 /\ LET piece == SubSeq(key, cut[i - 1] + 1, cut[i])
                    IN  IF shape[i].lit THEN piece = shape[i].text
                        ELSE /\ piece # <<>>
                             /\ \A m \in 1..Len(piece) : SegmentChar(piece[m])

\* the number of dots in a string
Dots(s) == Cardinality({i \in 1..Len(s) : s[i] = Dot})

\* the number of dots in the literal fragments of a template
LiteralDots(shape) ==
    Cardinality({<<i, m>> \in (1..Len(shape)) \X (1..8) :
                    shape[i].lit /\ m <= Len(shape[i].text) /\ shape[i].text[m] = Dot})

\* C18: the matcher compiled from a template accepts a key if and only if the
\* key is the literal fragments of the template in order with every
\* placeholder replaced by one non-empty run of [A-Za-z0-9_-]; so an accepted
\* key has exactly the dot-separated segments of the template.
C18_MatcherAcceptsInstances ==
    op = "match" =>
        /\ ret.accepted <=> InstanceOf(args.key, args.shape)
        /\ ret.accepted => Dots(args.key) = LiteralDots(args.shape)

\* a.${v}.${w}I accepted a.a.aI, and in another run would not accept a.a.a
C18_Witness ==
    /\ op = "match"
    /\ args.template = <<"a", ".", "$", "{", "v", "}", ".", "$", "{", "w", "}", "I">>
    /\ args.key = <<"a", ".", "a", ".", "a", "I">>
    /\ ret.accepted

----------------------------------------------------------------------------
(* Properties of stripYAMLQuotes *)

\* the characters of s at the positions that satisfy Keep
Keeping(s, Keep(_)) ==
    LET at == SelectSeq([i \in 1..Len(s) |-> i], Keep)
    IN  [j \in 1..Len(at) |-> s[at[j]]]

\* how many characters c in a row end at position i of s
RunEndingAt(s, i, c) ==
    Cardinality({j \in 1..i : \A h \in j..i : s[h] = c})

\* every pair of quotes replaced by one: of each run of quotes the 2nd, 4th,
\* ... is dropped
Undoubled(s) ==
    Keeping(s, LAMBDA i : s[i] # SQuote \/ RunEndingAt(s, i, SQuote) % 2 = 1)

RECURSIVE Unescaped(_)
\* the escaped quote and the escaped backslash unescaped, reading from the left
\* one escape at a time
Unescaped(s) ==
    IF Len(s) = 0 THEN <<>>
    ELSE IF Len(s) >= 2 /\ s[1] = Backslash /\ s[2] \in {Backslash, DQuote}
      THEN <<s[2]>> \o Unescaped(SubSeq(s, 3, Len(s)))
    ELSE <<s[1]>> \o Unescaped(Tail(s))

\* C19: stripYAMLQuotes strips one layer of matching quotes: a string of
\* length >= 2 that starts and ends with a single quote loses them and has
\* every doubled single quote replaced by one; a string that starts and ends
\* with a double quote loses them and has the escaped double quote and the
\* escaped backslash unescaped; every other string is returned unchanged.
C19_StripOneLayer ==
    op = "strip" =>
        LET s == args.s
            n == Len(s)
            inner == SubSeq(s, 2, n - 1)
        IN  /\ (n >= 2 /\ s[1] = SQuote /\ s[n] = SQuote) => ret.out = Undoubled(inner)
            /\ (n >= 2 /\ s[1] = DQuote /\ s[n] = DQuote) => ret.out = Unescaped(inner)
            /\ (n < 2 \/ s[1] # s[n] \/ s[1] \notin {SQuote, DQuote}) => ret.out = s

\* a double-quoted string that holds a backslash and an escaped quote was
\* stripped
C19_Witness ==
    /\ op = "strip"
    /\ args.s = <<DQuote, Backslash, Backslash, DQuote, DQuote>>
    /\ ret.out = <<Backslash, DQuote>>

----------------------------------------------------------------------------
(* Properties of extractTranslationText *)

\* the last command was a run of extractTranslationText
ExtractDone == op = "extract"

\* the first line of the input that is not blank starts, after its
\* indentation, with the opening brace
FirstNonBlankIsObject ==
    \E i \in 1..Len(args.lines) :
        /\ args.lines[i].kind = "json"
        /\ \A j \in 1..(i - 1) : args.lines[j].kind = "blank"

\* line i of the input is a message of the assistant role
AssistantMessage(i) ==
    /\ args.lines[i].kind = "json"
    /\ args.lines[i].valid
    /\ args.lines[i].role = "assistant"

\* the text blocks of the assistant messages, as <<line, block>>
TextBlocks ==
    {p \in (1..Len(args.lines)) \X (1..MaxBlocks) :
        /\ AssistantMessage(p[1])
        /\ args.lines[p[1]].array
        /\ p[2] <= Len(args.lines[p[1]].blocks)
        /\ args.lines[p[1]].blocks[p[2]].type = "text"}

\* the place of the text block p among the text blocks, in input order
Place(p) ==
    Cardinality({q \in TextBlocks : q[1] < p[1] \/ (q[1] = p[1] /\ q[2] <= p[2])})

\* the extracted stage is the text of every text block of every assistant
\* message, in input order, each followed by a newline, and nothing else
StageIsAssistantTexts ==
    /\ Len(ret.texts) = Cardinality(TextBlocks)
    /\ \A p \in TextBlocks : ret.texts[Place(p)] = args.lines[p[1]].blocks[p[2]].text
    /\ ret.content = ContentOf(ret.texts)

\* C20: the input is treated as JSON-Lines exactly when its first non-blank
\* line starts with the opening brace; the result of that stage is then the
\* text of every text block of every assistant message, in input order, each
\* followed by a newline, and messages of other roles contribute nothing.
C20_JSONLDetectionAndExtraction ==
    ExtractDone =>
        /\ ret.jsonl <=> FirstNonBlankIsObject
        /\ ret.jsonl => StageIsAssistantTexts

\* line i of the text after the JSON-Lines stage opens, closes a fence
IsOpen(i) == TrimSpace(ret.content[i]) = FlatLine("text", FALSE, FenceOpen)

IsClose(i) == TrimSpace(ret.content[i]) = FlatLine("text", FALSE, FenceClose)

\* line i lies inside a fenced block: an opening line stands above it with no
\* closing line from there down to line i, and it is no opening line itself
Inside(i) ==
    /\ ~IsOpen(i)
    /\ \E j \in 1..(i - 1) :
          /\ IsOpen(j)
          /\ \A k \in (j + 1)..i : ~IsClose(k)

InsideLines == SelectSeq([i \in 1..Len(ret.content) |-> i], Inside)

\* the fence marker stands somewhere in the text after the JSON-Lines stage
HasMarker ==
    \E i \in 1..Len(ret.content) :
        ret.content[i].kind = "text" /\ HasSub(ret.content[i].tok, FenceOpen)

\* the result is the lines inside the fenced blocks, each followed by a newline
OnlyFenced ==
    ret.out = [n \in 1..Len(InsideLines) |-> ret.content[InsideLines[n]]] \o <<EmptyLine>>

\* text that is neither JSON-Lines nor holds a fence marker comes back unchanged
PassThrough == (~ret.jsonl /\ ~HasMarker) => ret.out = args.lines

\* C21 as stated: after the JSON-Lines stage, a text that contains a yaml
\* fence gives only the lines inside the fenced blocks, each followed by a
\* newline; a text that is neither JSON-Lines nor fenced is returned unchanged.
C21_FencedOnly ==
    ExtractDone =>
        /\ HasMarker => OnlyFenced
        /\ PassThrough

\* C21 amended: the fenced lines alone are returned when the marker is present
\* and at least one line lies inside a fenced block; when the marker is present
\* but no line lies inside a fence (an empty fence, or the marker inside a
\* longer line) the text after the JSON-Lines stage is returned whole; a text
\* that is neither JSON-Lines nor fenced is returned unchanged.
C21_FencedOnlyWhenNonEmpty ==
    ExtractDone =>
        /\ (HasMarker /\ Len(InsideLines) > 0) => OnlyFenced
        /\ (HasMarker /\ Len(InsideLines) = 0) => ret.out = ret.content
        /\ PassThrough

\* a message whose text holds a key line outside a fence and another inside
\* one was extracted, and only the fenced line came back
C21_Witness ==
    /\ ExtractDone
    /\ ret.jsonl
    /\ HasMarker
    /\ \E i \in 1..Len(ret.content) : ret.content[i] = OtherKeyLine /\ ~Inside(i)
    /\ ret.out = <<OtherKeyLine, EmptyLine>>

----------------------------------------------------------------------------
(* Properties of remove --stale *)

\* the last command was remove --stale and it returned without error
StaleDone == op = "stale" /\ ret.err = ""

\* the flat keys of the locale file before the run
KeysBefore == loadYAMLFlat(pre).m

\* C22: after remove --stale completes without error the locale file holds no
\* key that en-us.yaml lacks (its stale report is empty), every locale key
\* that en-us.yaml has is still there, and en-us.yaml is not modified.
C22_StaleRemoved ==
    StaleDone =>
        /\ reportStale(en, file).err = ""
        /\ reportStale(en, file).out = <<>>
        /\ \A k \in DOMAIN KeysBefore :
              k \in DOMAIN EnKeys => (k \in DOMAIN LocaleKeys /\ LocaleKeys[k] = KeysBefore[k])
        /\ en = args.en

----------------------------------------------------------------------------
(* Properties of parseMergeInput *)

\* the last command was a run of parseMergeInput
ParseDone == op = "parse"

\* line i of the input without the white space around it
LineText(i) == Trimmed(args.lines[i])

\* a dotted key: segments of letters, digits, _ and -, at least two, none empty
ValidKey(s) ==
    /\ Len(s) > 0
    /\ \A c \in 1..Len(s) : s[c] \in KeyChars \cup {Dot}
    /\ \E c \in 1..Len(s) : s[c] = Dot
    /\ s[1] # Dot /\ s[Len(s)] # Dot
    /\ \A c \in 1..(Len(s) - 1) : ~(s[c] = Dot /\ s[c + 1] = Dot)

\* the text of line i up to the first place where sep stands, when that place
\* is not the start of the line; the empty text otherwise
Before(i, sep) ==
    LET at == {c \in 2..(Len(LineText(i)) - Len(sep) + 1) :
                  /\ SubSeq(LineText(i), c, c + Len(sep) - 1) = sep
                  /\ \A b \in 1..(c - 1) : SubSeq(LineText(i), b, b + Len(sep) - 1) # sep}
    IN  IF at = {} THEN <<>> ELSE SubSeq(LineText(i), 1, (CHOOSE c \in at : TRUE) - 1)

\* the text of line i after the candidate key k and the separator sep
After(i, k, sep) == SubSeq(LineText(i), Len(k) + Len(sep) + 1, Len(LineText(i)))

IsBlankLine(i) == LineText(i) = <<>> \/ LineText(i) = Separator

IsCommentLine(i) == ~IsBlankLine(i) /\ LineText(i)[1] = "#"

IsReason(i) == IsPrefix(ReasonTag, LineText(i))

IsContinuation(i) == IsPrefix(ContinuationTag, LineText(i))

\* the pair line i stands for, NoKey when it stands for none
ExpectedPair(i) ==
    IF IsBlankLine(i) \/ IsCommentLine(i) THEN NoKey
    ELSE IF ValidKey(Before(i, <<":", Space>>))
      THEN [key |-> Before(i, <<":", Space>>),
            value |-> stripYAMLQuotes(After(i, Before(i, <<":", Space>>), <<":", Space>>))]
    ELSE IF ValidKey(Before(i, <<"=">>))
      THEN [key |-> Before(i, <<"=">>),
            value |-> After(i, Before(i, <<"=">>), <<"=">>)]
    ELSE NoKey

IsKeyLine(i) == ExpectedPair(i) # NoKey

\* the lines that give an entry, in input order
KeyLines == SelectSeq([i \in 1..Len(args.lines) |-> i], IsKeyLine)

\* line k clears the pending comment: a blank line, a separator, or a line that
\* is no comment (a key line, or a line of neither form)
Clears(k) == IsBlankLine(k) \/ ~IsCommentLine(k)

\* the last clearing line above line i, 0 when there is none
BlockStart(i) ==
    IF \E k \in 1..(i - 1) : Clears(k)
      THEN CHOOSE k \in 1..(i - 1) : Clears(k) /\ \A m \in (k + 1)..(i - 1) : ~Clears(m)
      ELSE 0

\* line j belongs to the comment pending at line i: a tagged line since the last
\* clearing, or a continuation line below a tagged line since the last clearing
Accumulated(j, i) ==
    /\ BlockStart(i) < j /\ j < i
    /\ \/ IsReason(j)
       \/ (IsContinuation(j) /\ \E r \in (BlockStart(i) + 1)..(j - 1) : IsReason(r))

ExpectedComment(i) ==
    LET js == SelectSeq([j \in 1..Len(args.lines) |-> j], LAMBDA j : Accumulated(j, i))
    IN  [n \in 1..Len(js) |-> LineText(js[n])]

\* C23: the comment of an emitted entry is exactly the tagged lines and their
\* continuation lines accumulated since the pending comment was last cleared,
\* in input order; emitting an entry clears the pending comment, and a
\* continuation line met while nothing is pending is dropped.
C23_CommentIsPendingBlock ==
    ParseDone =>
        /\ Len(ret.entries) = Len(KeyLines)
        /\ \A n \in 1..Len(KeyLines) :
              ret.entries[n].comment = ExpectedComment(KeyLines[n])

\* a tagged comment stood above two key lines: the first entry carries it and
\* the second carries none
C23_Witness ==
    /\ ParseDone
    /\ Len(args.lines) = 3 /\ IsReason(1) /\ IsKeyLine(2) /\ IsKeyLine(3)
    /\ Len(ret.entries) = 2
    /\ ret.entries[1].comment = <<LineText(1)>>
    /\ ret.entries[2].comment = <<>>

\* C24: the pending comment is cleared by a blank line, a bare separator, a
\* line that is no comment and matches neither form, and an emitted entry, and
\* by nothing else: a tagged line above a key line (its text on no other line
\* above that key line) is part of that entry's comment exactly when none of
\* those stands between the two, whatever other comment lines do.
C24_ClearedOnlyByThose ==
    ParseDone =>
        \A n \in 1..Len(KeyLines) :
            \A j \in 1..(KeyLines[n] - 1) :
                (/\ IsReason(j)
                 /\ \A o \in 1..(KeyLines[n] - 1) : o # j => LineText(o) # LineText(j)) =>
                    ((\E m \in 1..Len(ret.entries[n].comment) :
                          ret.entries[n].comment[m] = LineText(j))
                      <=> (\A k \in (j + 1)..(KeyLines[n] - 1) :
                              /\ ~IsBlankLine(k)
                              /\ IsCommentLine(k)))

\* a tagged comment, then a comment that is neither tagged nor a continuation,
\* then a key line: the entry carries the tagged comment
C24_Witness ==
    /\ ParseDone
    /\ Len(args.lines) = 3
    /\ IsReason(1)
    /\ IsCommentLine(2) /\ ~IsReason(2) /\ ~IsContinuation(2)
    /\ IsKeyLine(3)
    /\ Len(ret.entries) = 1
    /\ ret.entries[1].comment = <<LineText(1)>>

\* C25: every emitted entry has a valid dotted key; the form key: value is
\* tried first and its value unquoted, the form key=value only when the first
\* gave no valid key and its value is taken as it stands; a line whose
\* candidate key is invalid in both forms emits nothing.
C25_ValidKeysTwoForms ==
    ParseDone =>
        /\ Len(ret.entries) = Len(KeyLines)
        /\ \A n \in 1..Len(ret.entries) :
              /\ ValidKey(ret.entries[n].key)
              /\ ret.entries[n].key = ExpectedPair(KeyLines[n]).key
              /\ ret.entries[n].value = ExpectedPair(KeyLines[n]).value

\* a line with both separators gave its entry by the colon form, a line whose
\* colon candidate is no key gave it by the equals form, and a line with one
\* segment gave none
C25_Witness ==
    /\ ParseDone
    /\ args.lines = << <<"c", ".", "d", ":", " ", "v", "=", "w">>,
                       <<"b", "=", "v">>,
                       <<"a", ".", "b", "=", "c", ":", " ", "d">> >>
    /\ ret.entries = << Entry(<<"c", ".", "d">>, <<"v", "=", "w">>, <<>>),
                        Entry(<<"a", ".", "b">>, <<"c", ":", " ", "d">>, <<>>) >>

----------------------------------------------------------------------------
(* Properties of findKeyReferences *)

\* the last command was a run of findKeyReferences
ResolveDone == op = "resolve"

\* some pattern found in the tree accepts the key k
Accepted(k) ==
    \E n \in 1..Len(args.dynamics) : MatchString(args.dynamics[n].Regex, k)

\* the keys the scan recorded a literal reference for
Literal == tree.direct \cup (tree.indirect \cap DOMAIN EnKeys)

\* C26: resolving the dynamic patterns marks a catalog key as referenced exactly
\* when some compiled matcher accepts it; the set of referenced keys is the
\* same for every order of the patterns and of the keys, and the literal
\* references recorded for a key are kept.
C26_ResolveAnyOrder ==
    ResolveDone =>
        /\ DOMAIN ret.refs = Literal \cup {k \in DOMAIN EnKeys : Accepted(k)}
        /\ DOMAIN ret.refs = findKeyReferences(tree, DOMAIN EnKeys)
        /\ \A k \in Literal : ret.refs[k][1] = "literal"
        /\ \A k \in (DOMAIN EnKeys) \ Literal :
              k \in DOMAIN ret.refs <=> Accepted(k)

\* two patterns and three keys were resolved, one key with a literal reference
\* and a pattern that accepts it, one key that no pattern accepts
C26_Witness ==
    /\ ResolveDone
    /\ Len(args.dynamics) = 2
    /\ Len(args.keyOrder) >= 3
    /\ \E k \in Literal : Accepted(k) /\ Len(ret.refs[k]) = 2
    /\ \E k \in DOMAIN EnKeys : k \notin DOMAIN ret.refs

----------------------------------------------------------------------------
(* Properties of the i18n module of the main process *)

\* C27: a callback registered with onLocaleChange runs only after the locale
\* has been loaded: at every invocation the load of the locale that is current
\* at that moment has finished, also when two settings-update events for
\* different locales arrive before the first load completes.
C27_CallbackAfterLoad ==
    i18n # NoModule =>
        \A n \in 1..Len(i18n.called) :
            i18n.called[n].loaded \/ ~i18n.called[n].pending

----------------------------------------------------------------------------
(* Properties of the removal: what is left alone, and the order of the keys *)

\* the paths of the document the removal started from that end in a scalar
LeavesBefore == {p \in AllPaths(pre.root) : NodeAt(pre.root, p).Kind = ScalarNode}

\* C28: key removal only removes what was asked for: every leaf of the original
\* document whose dotted key is not in the key set is still there with its
\* value, also when a key of the key set names a mapping above it.
C28_OthersKept ==
    RemoveDone =>
        \A p \in LeavesBefore :
            Join(p, Dot) \notin args.keys =>
                /\ HasPath(file.root, p)
                /\ NodeAt(file.root, p) = NodeAt(pre.root, p)

\* C29: the outcome of removeKeysFromFile does not depend on the order in which
\* the keys of the key set are processed: every order yields the same document
\* and the same count, also when the key set holds a key and one of its
\* dotted prefixes.
C29_OrderIndependent ==
    op = "remove" =>
        \A order \in Perms(args.keys) :
            LET r == removeKeysFromFile(pre, order, args.outcome)
            IN  /\ r.file = file
                /\ r.removed = ret.removed
                /\ r.err = ret.err

----------------------------------------------------------------------------
(* Properties of the workflow translate, merge, translate *)

\* the output of translate was merged without a failed write and translate has
\* run again
WorkflowDone == op = "wf-again" /\ args.outcome = "ok"

\* C30: the workflow converges: when the complete text output of translate for
\* a locale is fed to merge for the same locale, a following translate for
\* that locale reports no key, also for catalogs with top-level scalar keys.
C30_WorkflowConverges ==
    WorkflowDone =>
        /\ ret.again.err = ""
        /\ ret.again.out = <<>>

====
